---- MODULE Spec2Model ----
(***************************************************************************)
(* A model of the geotiv GeoTIFF codec: the writer toTiffBytes             *)
(* (include/geotiv/writter.hpp) and the reader ReadRasterCollection        *)
(* (include/geotiv/parser.hpp), at the level of the bytes of the file.     *)
(*                                                                         *)
(* Conventions                                                             *)
(*  - a byte is a number in 0..255; a file or buffer is a sequence of      *)
(*    bytes, the byte at file offset o being buf[o+1];                     *)
(*  - a uint16/uint32 is a natural number.  TLC's integers are 32-bit      *)
(*    signed, so a decoded 32-bit value whose top byte is >= 128 is        *)
(*    represented by Huge (2^31-1): it is only ever compared, used as an   *)
(*    offset beyond every file of the model, or as a count larger than     *)
(*    every file of the model.  The low and high 16-bit halves are         *)
(*    decoded exactly from the bytes;                                      *)
(*  - a double that travels through text (std::to_string / operator>>)     *)
(*    is a signed integer number of "ticks" of 10^-7; a double that        *)
(*    travels through memcpy is its 8-byte IEEE-754 image.                 *)
(***************************************************************************)
EXTENDS Integers, Sequences, FiniteSets, TLC

(***************************************************************************)
(* Bounds of the model.                                                    *)
(***************************************************************************)
\* largest number of layers of an input collection
MaxLayers == 2
\* largest number of rows and of columns of an input grid
MaxDim == 2

(***************************************************************************)
(* Numbers.                                                                *)
(***************************************************************************)
\* ticks per unit: a double d is modelled by the integer d * 10^7
Scale == 10000000
\* stands for every 32-bit value >= 2^31
Huge == 2147483647

Max(a, b) == IF a >= b THEN a ELSE b
Min(a, b) == IF a <= b THEN a ELSE b

RECURSIVE SumSeq(_)
SumSeq(s) == IF s = <<>> THEN 0 ELSE Head(s) + SumSeq(Tail(s))

RECURSIVE Flatten(_)
\* concatenation of a sequence of sequences
Flatten(ss) == IF ss = <<>> THEN <<>> ELSE Head(ss) \o Flatten(Tail(ss))

\* the sum of f[1..n]
RECURSIVE PrefixSum(_, _)
PrefixSum(f, n) == IF n = 0 THEN 0 ELSE f[n] + PrefixSum(f, n - 1)

(***************************************************************************)
(* Text.  Character codes of the literals the code uses.                   *)
(***************************************************************************)
StrCrsDatum == <<67, 82, 83, 32, 87, 71, 83, 56, 52, 32, 68, 65, 84, 85, 77, 32>>  \* "CRS WGS84 DATUM "
StrShift == <<32, 83, 72, 73, 70, 84, 32>>                                        \* " SHIFT "
TokCRS == <<67, 82, 83>>                                                          \* "CRS"
TokDATUM == <<68, 65, 84, 85, 77>>                                                \* "DATUM"
TokHEADING == <<72, 69, 65, 68, 73, 78, 71>>                                      \* "HEADING"
TokENU == <<69, 78, 85>>                                                          \* "ENU"
TokWGS == <<87, 71, 83>>                                                          \* "WGS"
TokWGS84 == <<87, 71, 83, 56, 52>>                                                \* "WGS84"
TokEPSG == <<69, 80, 83, 71, 58, 52, 51, 50, 54>>                                 \* "EPSG:4326"

\* std::to_string(unsigned): decimal digits, no leading zeros
RECURSIVE DigitsOf(_)
DigitsOf(n) == IF n < 10 THEN <<48 + n>> ELSE DigitsOf(n \div 10) \o <<48 + (n % 10)>>

\* n as exactly k decimal digits (leading zeros)
RECURSIVE PadDigits(_, _)
PadDigits(n, k) == IF k = 0 THEN <<>> ELSE PadDigits(n \div 10, k - 1) \o <<48 + (n % 10)>>

\* std::to_string(double): printf("%f"), six digits after the point, rounded
\* to nearest.  d is in ticks of 10^-7; no input of the model is a tie.
to_string(d) ==
    LET mag == IF d < 0 THEN -d ELSE d
        micro == (mag + 5) \div 10
        sign == IF d < 0 THEN <<45>> ELSE <<>>
    IN  sign \o DigitsOf(micro \div 1000000) \o <<46>> \o PadDigits(micro % 1000000, 6)

(***************************************************************************)
(* Little-endian writers (the lambdas of toTiffBytes).                     *)
(***************************************************************************)
writeLE16(v) == << v % 256, (v \div 256) % 256 >>

writeLE32(v) == << v % 256, (v \div 256) % 256, (v \div 65536) % 256, (v \div 16777216) % 256 >>

\* the IEEE-754 image of the doubles the model writes, least significant byte
\* first (memcpy to uint64, then (bits >> 8*i) & 0xFF for i = 0..7)
DoubleBits(d) ==
    CASE d = 0          -> <<0, 0, 0, 0, 0, 0, 0, 0>>
      [] d = 5000000    -> <<0, 0, 0, 0, 0, 0, 224, 63>>
      [] d = 10000000   -> <<0, 0, 0, 0, 0, 0, 240, 63>>
      [] d = 15000000   -> <<0, 0, 0, 0, 0, 0, 248, 63>>
      [] d = 20000000   -> <<0, 0, 0, 0, 0, 0, 0, 64>>
      [] d = -10000000  -> <<0, 0, 0, 0, 0, 0, 240, 191>>
      [] d = 475000000  -> <<0, 0, 0, 0, 0, 192, 71, 64>>
      [] d = 85000000   -> <<0, 0, 0, 0, 0, 0, 33, 64>>
      [] d = 1000000000 -> <<0, 0, 0, 0, 0, 0, 89, 64>>
      [] d = 471234567  -> <<109, 124, 220, 109, 205, 143, 71, 64>>
      [] d = 86000000   -> <<51, 51, 51, 51, 51, 51, 33, 64>>
      [] d = 1500000000 -> <<0, 0, 0, 0, 0, 192, 98, 64>>

writeDouble(d) == DoubleBits(d)

(***************************************************************************)
(* The container data model (types.hpp) as the writer reads it.  A layer   *)
(* is a record                                                             *)
(*   grid             [rows, cols, data]  data row-major, one byte a cell  *)
(*   samplesPerPixel, planarConfig        uint32                           *)
(*   datum            [lat, lon, alt]     ticks                            *)
(*   shift            [x, y, z, yaw]      ticks                            *)
(*   resolution       ticks                                                *)
(*   imageDescription sequence of bytes                                    *)
(*   customTags       function from tag numbers to sequences of uint32     *)
(***************************************************************************)
\* g(r, c) of concord::Grid, r and c counted from 0
GridAt(g, r, c) == g.data[r * g.cols + c + 1]

\* the keys of a std::map in iteration order: ascending
RECURSIVE SortedKeys(_)
SortedKeys(S) ==
    IF S = {} THEN <<>>
    ELSE LET m == CHOOSE x \in S : \A y \in S : x <= y
         IN  <<m>> \o SortedKeys(S \ {m})

customTagKeys(layer) == SortedKeys(DOMAIN layer.customTags)

\* a container that keeps the pair inserted last and no other
customTagsLastOnly(ins) ==
    IF ins = <<>> THEN <<>> ELSE (ins[Len(ins)][1] :> ins[Len(ins)][2])

\* layer.customTags after customTags[tag] = values for the pairs <<tag,
\* values>> of ins in turn: a std::map, one value a key, the later one kept
RECURSIVE customTagsOf(_)
customTagsOf(ins) ==
    IF ins = <<>> THEN <<>>
    ELSE (ins[Len(ins)][1] :> ins[Len(ins)][2]) @@ customTagsOf(SubSeq(ins, 1, Len(ins) - 1))

(***************************************************************************)
(* toTiffBytes, step 1: flatten each layer's grid into a chunky strip.     *)
(***************************************************************************)
\* the strip of a layer: W*H*S bytes, pixel (r,c) repeated S times
stripOf(layer) ==
    LET W == layer.grid.cols
        H == layer.grid.rows
        S == layer.samplesPerPixel
    IN  [idx \in 1..(W * H * S) |-> layer.grid.data[((idx - 1) \div S) + 1]]

strips(rc) == [i \in 1..Len(rc) |-> stripOf(rc[i])]

stripCounts(rc) == [i \in 1..Len(rc) |-> Len(stripOf(rc[i]))]

(***************************************************************************)
(* Step 2: strip offsets, right after the 8-byte header.                   *)
(***************************************************************************)
HeaderSize == 8

\* strip offsets counted from the start of the file, the header forgotten
stripOffsetsNoHeader(rc) == [i \in 1..Len(rc) |-> PrefixSum(stripCounts(rc), i - 1)]

stripOffsets(rc) == [i \in 1..Len(rc) |-> HeaderSize + PrefixSum(stripCounts(rc), i - 1)]

firstIFD(rc) == HeaderSize + PrefixSum(stripCounts(rc), Len(rc))

(***************************************************************************)
(* Step 3: the ImageDescription of each layer.                             *)
(***************************************************************************)
\* concord::ENU{x, y, z, datum}.toWGS() of the external geodesy library: the
\* local origin is the datum itself; the model's layers have a zero shift point
toWGS(x, y, z, datum) == datum

generatedDescription(layer) ==
    StrCrsDatum \o to_string(layer.datum.lat) \o <<32>> \o to_string(layer.datum.lon)
        \o <<32>> \o to_string(layer.datum.alt) \o StrShift
        \o to_string(layer.shift.x) \o <<32>> \o to_string(layer.shift.y)
        \o <<32>> \o to_string(layer.shift.z) \o <<32>> \o to_string(layer.shift.yaw)

descriptionOf(layer) ==
    IF layer.imageDescription # <<>> THEN layer.imageDescription
    ELSE generatedDescription(layer)

descriptions(rc) == [i \in 1..Len(rc) |-> descriptionOf(rc[i])]

descLengths(rc) == [i \in 1..Len(rc) |-> Len(descriptionOf(rc[i])) + 1]

(***************************************************************************)
(* Step 4: entry counts, directory sizes and directory offsets.            *)
(***************************************************************************)
\* 9 standard + ImageDescription + PlanarConfig + ModelPixelScale +
\* GeoKeyDirectory + ModelTiepointTag
BaseEntries == 14
EntrySize == 12

\* entryCounts[i], a uint16_t, for a layer of n custom tags: the size is cast
\* to uint16_t, the sum is stored in a uint16_t
entryCountOf(n) == (BaseEntries + (n % 65536)) % 65536

entryCounts(rc) == [i \in 1..Len(rc) |-> entryCountOf(Cardinality(DOMAIN rc[i].customTags))]

\* bytes of the multi-value custom tags of a layer: only tags with more than
\* one value take space
customDataSizeOf(layer) ==
    SumSeq([k \in 1..Len(customTagKeys(layer)) |->
              LET values == layer.customTags[customTagKeys(layer)[k]]
              IN  IF Len(values) > 1 THEN Len(values) * 4 ELSE 0])

customDataSizes(rc) == [i \in 1..Len(rc) |-> customDataSizeOf(rc[i])]

\* entry count + entries + next IFD pointer
ifdSizeOf(entries) == 2 + entries * EntrySize + 4

ifdSizes(rc) == [i \in 1..Len(rc) |-> ifdSizeOf(entryCounts(rc)[i])]

ifdOffsets(rc) == [i \in 1..Len(rc) |-> firstIFD(rc) + PrefixSum(ifdSizes(rc), i - 1)]

(***************************************************************************)
(* Step 5: offsets of the variable-length data, per layer: description,    *)
(* pixel scale, GeoKey directory, tiepoint, custom tag data.               *)
(***************************************************************************)
ScaleBytes == 24
GeoKeyBytes == 56
TiepointBytes == 48

varSizes(rc) ==
    [i \in 1..Len(rc) |->
        descLengths(rc)[i] + ScaleBytes + GeoKeyBytes + TiepointBytes + customDataSizes(rc)[i]]

descOffsets(rc) ==
    [i \in 1..Len(rc) |->
        firstIFD(rc) + PrefixSum(ifdSizes(rc), Len(rc)) + PrefixSum(varSizes(rc), i - 1)]

scaleOffsets(rc) == [i \in 1..Len(rc) |-> descOffsets(rc)[i] + descLengths(rc)[i]]

geoKeyOffsets(rc) == [i \in 1..Len(rc) |-> scaleOffsets(rc)[i] + ScaleBytes]

tiepointOffsets(rc) == [i \in 1..Len(rc) |-> geoKeyOffsets(rc)[i] + GeoKeyBytes]

customDataOffsets(rc) == [i \in 1..Len(rc) |-> tiepointOffsets(rc)[i] + TiepointBytes]

totalSize(rc) ==
    firstIFD(rc) + PrefixSum(ifdSizes(rc), Len(rc)) + PrefixSum(varSizes(rc), Len(rc))

(***************************************************************************)
(* Steps 6-9: emission.  Every run of writes that starts at a writePos is  *)
(* a chunk [pos, bytes]; the buffer is totalSize zero bytes overwritten by *)
(* the chunks in program order.                                            *)
(***************************************************************************)
\* one 12-byte directory entry
Entry(tag, type, count, value) ==
    writeLE16(tag) \o writeLE16(type) \o writeLE32(count) \o writeLE32(value)

\* a header whose first-directory offset forgets the strips
headerBytesNoStrips(rc) == <<73, 73>> \o writeLE16(42) \o writeLE32(HeaderSize)

\* step 6: 'I' 'I', 42, offset of the first directory
headerBytes(rc) == <<73, 73>> \o writeLE16(42) \o writeLE32(firstIFD(rc))

\* the 14 fixed entries of directory i, in the order the code writes them
fixedEntries(rc, i) ==
    LET layer == rc[i]
        W == layer.grid.cols
        H == layer.grid.rows
    IN  Entry(256, 4, 1, W)
     \o Entry(257, 4, 1, H)
     \o Entry(258, 3, 1, 8)
     \o Entry(259, 3, 1, 1)
     \o Entry(262, 3, 1, 1)
     \o Entry(270, 2, descLengths(rc)[i], descOffsets(rc)[i])
     \o Entry(273, 4, 1, stripOffsets(rc)[i])
     \o Entry(277, 3, 1, layer.samplesPerPixel)
     \o Entry(278, 4, 1, H)
     \o Entry(279, 4, 1, stripCounts(rc)[i])
     \o Entry(284, 3, 1, layer.planarConfig)
     \o Entry(33550, 12, 3, scaleOffsets(rc)[i])
     \o Entry(34735, 3, 14, geoKeyOffsets(rc)[i])
     \o Entry(33922, 12, 6, tiepointOffsets(rc)[i])

\* custom entries whose pointer into the custom data never advances
RECURSIVE customEntriesSamePos(_, _, _)
customEntriesSamePos(layer, k, customDataPos) ==
    LET keys == customTagKeys(layer)
    IN  IF k > Len(keys) THEN <<>>
        ELSE LET tag == keys[k]
                 values == layer.customTags[tag]
             IN  IF Len(values) = 1
                 THEN Entry(tag, 4, 1, values[1])
                        \o customEntriesSamePos(layer, k + 1, customDataPos)
                 ELSE Entry(tag, 4, Len(values), customDataPos)
                        \o customEntriesSamePos(layer, k + 1, customDataPos)

\* the custom entries of a layer from its k-th key on; customDataPos is the
\* running pointer into the layer's custom data
RECURSIVE customEntries(_, _, _)
customEntries(layer, k, customDataPos) ==
    LET keys == customTagKeys(layer)
    IN  IF k > Len(keys) THEN <<>>
        ELSE LET tag == keys[k]
                 values == layer.customTags[tag]
             IN  IF Len(values) = 1
                 THEN Entry(tag, 4, 1, values[1])
                        \o customEntries(layer, k + 1, customDataPos)
                 ELSE Entry(tag, 4, Len(values), customDataPos)
                        \o customEntries(layer, k + 1, customDataPos + Len(values) * 4)

nextIFDOf(rc, i) == IF i + 1 <= Len(rc) THEN ifdOffsets(rc)[i + 1] ELSE 0

\* step 8: directory i
ifdBytes(rc, i) ==
    writeLE16(entryCounts(rc)[i])
        \o fixedEntries(rc, i)
        \o customEntries(rc[i], 1, customDataOffsets(rc)[i])
        \o writeLE32(nextIFDOf(rc, i))

\* step 9: the GeoKey directory (always WGS84), as 16-bit values
geoKeyShorts ==
    <<1, 1, 0, 4,
      1024, 0, 1, 2,
      1025, 0, 1, 1,
      2048, 0, 1, 4326,
      2054, 0, 1, 9102>>

geoKeyBlock == Flatten([k \in 1..Len(geoKeyShorts) |-> writeLE16(geoKeyShorts[k])])

scaleBlock(layer) ==
    writeDouble(layer.resolution) \o writeDouble(layer.resolution) \o writeDouble(0)

tiepointBlock(layer) ==
    LET anchorWGS == toWGS(layer.shift.x, layer.shift.y, layer.shift.z, layer.datum)
    IN  writeDouble((layer.grid.cols * Scale) \div 2)
     \o writeDouble((layer.grid.rows * Scale) \div 2)
     \o writeDouble(0)
     \o writeDouble(anchorWGS.lon)
     \o writeDouble(anchorWGS.lat)
     \o writeDouble(anchorWGS.alt)

\* the values of the multi-value custom tags, in key order
customDataBlock(layer) ==
    Flatten([k \in 1..Len(customTagKeys(layer)) |->
        LET values == layer.customTags[customTagKeys(layer)[k]]
        IN  IF Len(values) > 1
            THEN Flatten([j \in 1..Len(values) |-> writeLE32(values[j])])
            ELSE <<>>])

Chunk(pos, bytes) == [pos |-> pos, bytes |-> bytes]

\* every write of steps 6-9, in program order
writeChunks(rc) ==
    LET N == Len(rc)
    IN  <<Chunk(0, headerBytes(rc))>>
     \o [i \in 1..N |-> Chunk(HeaderSize + PrefixSum(stripCounts(rc), i - 1), strips(rc)[i])]
     \o [i \in 1..N |-> Chunk(ifdOffsets(rc)[i], ifdBytes(rc, i))]
     \o Flatten([i \in 1..N |->
           << Chunk(descOffsets(rc)[i], descriptions(rc)[i] \o <<0>>),
              Chunk(scaleOffsets(rc)[i], scaleBlock(rc[i])),
              Chunk(geoKeyOffsets(rc)[i], geoKeyBlock),
              Chunk(tiepointOffsets(rc)[i], tiepointBlock(rc[i])),
              Chunk(customDataOffsets(rc)[i], customDataBlock(rc[i])) >>])

\* a buffer of size zero bytes after the chunks were written into it
applyChunks(size, chunks) ==
    [k \in 1..size |->
        LET hit == {j \in 1..Len(chunks) :
                      chunks[j].pos < k /\ k <= chunks[j].pos + Len(chunks[j].bytes)}
        IN  IF hit = {} THEN 0
            ELSE LET j == CHOOSE x \in hit : \A y \in hit : y <= x
                 IN  chunks[j].bytes[k - chunks[j].pos]]

\* no write of the emission leaves the buffer
writesInBounds(rc) ==
    \A j \in 1..Len(writeChunks(rc)) :
        writeChunks(rc)[j].pos + Len(writeChunks(rc)[j].bytes) <= totalSize(rc)

\* the buffer toTiffBytes returns for a collection of at least one layer
toTiffBytes(rc) == applyChunks(totalSize(rc), writeChunks(rc))

(***************************************************************************)
(* The reader (parser.hpp).  The stream is the file and a read position;   *)
(* a read of n bytes at pos delivers n bytes or fails (gcount < n).        *)
(***************************************************************************)
\* f.read of n bytes at offset pos delivers all n bytes
canRead(file, pos, n) == n = 0 \/ (pos >= 0 /\ n >= 0 /\ n <= Len(file) /\ pos <= Len(file) - n)

\* the n bytes such a read delivers
bytesAt(file, pos, n) == IF n = 0 THEN <<>> ELSE SubSeq(file, pos + 1, pos + n)

\* a 32-bit value from its bytes, b0 least significant
Val32(b0, b1, b2, b3) ==
    IF b3 >= 128 THEN Huge ELSE b0 + 256 * b1 + 65536 * b2 + 16777216 * b3

\* detail::readLE16 / readBE16 on the two bytes read
decode16(b, little) == IF little THEN b[1] + 256 * b[2] ELSE 256 * b[1] + b[2]

\* detail::readLE32 / readBE32 on the four bytes read
decode32(b, little) ==
    IF little THEN Val32(b[1], b[2], b[3], b[4]) ELSE Val32(b[4], b[3], b[2], b[1])

\* detail::readLE64 / readBE64 on the eight bytes read: the image of the
\* uint64, least significant byte first
decode64(b, little) == IF little THEN b ELSE [k \in 1..8 |-> b[9 - k]]

SatAdd(a, b) == IF a >= Huge - b THEN Huge ELSE a + b

SatMul(a, b) == IF a = 0 \/ b = 0 THEN 0 ELSE IF a > Huge \div b THEN Huge ELSE a * b

\* the error messages of the reader
ErrNone == "none"
ErrByteOrder == "Bad TIFF byte-order"
ErrMagic == "Bad TIFF magic"
ErrRead == "Failed to read"
ErrDims == "Invalid or missing image dimensions"
ErrBits == "Only 8-bit samples supported"
ErrNoStrips == "Missing strip data"
ErrStripArrays == "Mismatched strip arrays"
ErrStripCount == "Strip byte count mismatch"
ErrStripData == "Failed to read strip data"
ErrString == "Failed to read string data"
ErrDatum == "Missing or invalid DATUM in ImageDescription"
ErrScale == "Invalid pixel scale"
ErrDatumUnset == "Datum not properly initialized"
ErrNoIFD == "No valid IFDs found in TIFF file"

(***************************************************************************)
(* One directory: the entry table as a map keyed by tag.                   *)
(***************************************************************************)
\* the k-th (from 0) TIFFEntry of the directory at offset off
entryAt(file, little, off, k) ==
    LET b == bytesAt(file, off + 2 + EntrySize * k, EntrySize)
        v == SubSeq(b, 9, 12)
    IN  [tag |-> decode16(SubSeq(b, 1, 2), little),
         type |-> decode16(SubSeq(b, 3, 4), little),
         count |-> decode32(SubSeq(b, 5, 8), little),
         valueOffset |-> decode32(v, little),
         lo16 |-> IF little THEN v[1] + 256 * v[2] ELSE 256 * v[3] + v[4],
         hi16 |-> IF little THEN v[3] + 256 * v[4] ELSE 256 * v[1] + v[2]]

\* a map in which the first entry of a tag stays and later ones are dropped
RECURSIVE entriesFirstWins(_, _, _, _)
entriesFirstWins(file, little, off, k) ==
    IF k = 0 THEN <<>>
    ELSE LET e == entryAt(file, little, off, k - 1)
         IN  entriesFirstWins(file, little, off, k - 1) @@ (e.tag :> e)

\* std::map E after E[e.tag] = e for the first k entries in file order: a
\* later entry of a tag replaces the earlier one
RECURSIVE entriesUpTo(_, _, _, _)
entriesUpTo(file, little, off, k) ==
    IF k = 0 THEN <<>>
    ELSE LET e == entryAt(file, little, off, k - 1)
         IN  (e.tag :> e) @@ entriesUpTo(file, little, off, k - 1)

entryMap(file, little, off, nEnt) == entriesUpTo(file, little, off, nEnt)

\* e.valueOffset & 0xFFFF on a little-endian file, (e.valueOffset >> 16) & 0xFFFF
\* on a big-endian one
firstShort(e, little) == IF little THEN e.lo16 ELSE e.hi16

secondShort(e, little) == IF little THEN e.hi16 ELSE e.lo16

\* the lambda getUInt: [ok, val]; ok is FALSE when a read it makes fails
getUInt(E, tag, file, little) ==
    IF tag \notin DOMAIN E THEN [ok |-> TRUE, val |-> 0]
    ELSE LET e == E[tag]
         IN  IF e.type = 3
             THEN IF e.count = 1
                  THEN [ok |-> TRUE, val |-> firstShort(e, little)]
                  ELSE IF canRead(file, e.valueOffset, 2)
                       THEN [ok |-> TRUE,
                             val |-> decode16(bytesAt(file, e.valueOffset, 2), little)]
                       ELSE [ok |-> FALSE, val |-> 0]
             ELSE IF e.type = 4 THEN [ok |-> TRUE, val |-> e.valueOffset]
             ELSE [ok |-> TRUE, val |-> 0]

\* count values of size bytes each can be read at offset off
canReadArray(file, off, count, size) ==
    \/ count = 0
    \/ /\ off <= Len(file)
       /\ count <= (Len(file) - off) \div size

\* the lambda readUInts: [ok, vals]
readUInts(E, tag, file, little) ==
    IF tag \notin DOMAIN E THEN [ok |-> TRUE, vals |-> <<>>]
    ELSE LET e == E[tag]
         IN  IF e.type = 3
             THEN IF e.count = 1
                  THEN [ok |-> TRUE, vals |-> <<firstShort(e, little)>>]
                  ELSE IF e.count = 2
                  THEN [ok |-> TRUE,
                        vals |-> <<firstShort(e, little), secondShort(e, little)>>]
                  ELSE IF canReadArray(file, e.valueOffset, e.count, 2)
                  THEN [ok |-> TRUE,
                        vals |-> [k \in 1..e.count |->
                           decode16(bytesAt(file, e.valueOffset + 2 * (k - 1), 2), little)]]
                  ELSE [ok |-> FALSE, vals |-> <<>>]
             ELSE IF e.type = 4
             THEN IF e.count = 1
                  THEN [ok |-> TRUE, vals |-> <<e.valueOffset>>]
                  ELSE IF canReadArray(file, e.valueOffset, e.count, 4)
                  THEN [ok |-> TRUE,
                        vals |-> [k \in 1..e.count |->
                           decode32(bytesAt(file, e.valueOffset + 4 * (k - 1), 4), little)]]
                  ELSE [ok |-> FALSE, vals |-> <<>>]
             ELSE [ok |-> TRUE, vals |-> <<>>]

\* the lambda readDoubles: [ok, vals], each value the 8-byte image of a double
readDoubles(E, tag, file, little) ==
    IF tag \notin DOMAIN E THEN [ok |-> TRUE, vals |-> <<>>]
    ELSE LET e == E[tag]
         IN  IF e.type # 12 THEN [ok |-> TRUE, vals |-> <<>>]
             ELSE IF canReadArray(file, e.valueOffset, e.count, 8)
             THEN [ok |-> TRUE,
                   vals |-> [k \in 1..e.count |->
                      decode64(bytesAt(file, e.valueOffset + 8 * (k - 1), 8), little)]]
             ELSE [ok |-> FALSE, vals |-> <<>>]

(***************************************************************************)
(* The ImageDescription mini-language as std::istringstream reads it.      *)
(* A position i is an index into the string, Len+1 at its end.  Numbers    *)
(* are [sign] digits [. digits] with at least one digit; the strings of    *)
(* the model hold no exponent, and integer parts stay below 215.           *)
(***************************************************************************)
isSpace(ch) == ch \in {32, 9, 10, 11, 12, 13}

isDigit(ch) == ch >= 48 /\ ch <= 57

\* the first position from i on that holds no white space
RECURSIVE skipWS(_, _)
skipWS(str, i) == IF i <= Len(str) /\ isSpace(str[i]) THEN skipWS(str, i + 1) ELSE i

\* the first position from i on that holds white space or is the end
RECURSIVE tokenEnd(_, _)
tokenEnd(str, i) == IF i <= Len(str) /\ ~isSpace(str[i]) THEN tokenEnd(str, i + 1) ELSE i

\* ss >> tok: [ok, tok, next]
readToken(str, i) ==
    LET b == skipWS(str, i)
        e == tokenEnd(str, b)
    IN  IF b > Len(str) THEN [ok |-> FALSE, tok |-> <<>>, next |-> b]
        ELSE [ok |-> TRUE, tok |-> SubSeq(str, b, e - 1), next |-> e]

RECURSIVE digitsEnd(_, _)
digitsEnd(str, i) == IF i <= Len(str) /\ isDigit(str[i]) THEN digitsEnd(str, i + 1) ELSE i

\* the number the digits str[b..e-1] spell
RECURSIVE digitsValue(_, _, _)
digitsValue(str, b, e) ==
    IF b >= e THEN 0 ELSE digitsValue(str, b, e - 1) * 10 + (str[e - 1] - 48)

RECURSIVE pow10(_)
pow10(k) == IF k = 0 THEN 1 ELSE 10 * pow10(k - 1)

\* the first seven digits after the point, in ticks
fractionTicks(str, b, e) ==
    LET n == Min(e - b, 7)
    IN  digitsValue(str, b, b + n) * pow10(7 - n)

\* ss >> d for a double d: [ok, val, next], val in ticks
readDouble(str, i) ==
    LET b == skipWS(str, i)
        neg == b <= Len(str) /\ str[b] = 45
        signed == b <= Len(str) /\ str[b] \in {43, 45}
        ib == IF signed THEN b + 1 ELSE b
        ie == digitsEnd(str, ib)
        point == ie <= Len(str) /\ str[ie] = 46
        fb == IF point THEN ie + 1 ELSE ie
        fe == IF point THEN digitsEnd(str, fb) ELSE ie
        mag == digitsValue(str, ib, ie) * Scale + fractionTicks(str, fb, fe)
    IN  IF (ie - ib) + (fe - fb) = 0 THEN [ok |-> FALSE, val |-> 0, next |-> b]
        ELSE [ok |-> TRUE, val |-> IF neg THEN -mag ELSE mag, next |-> fe]

\* detail::parseCRS: [ok, crs]; ok is FALSE where the code throws
parseCRS(tok) ==
    IF tok = TokENU THEN [ok |-> TRUE, crs |-> "ENU"]
    ELSE IF tok \in {TokWGS, TokWGS84, TokEPSG} THEN [ok |-> TRUE, crs |-> "WGS"]
    ELSE [ok |-> FALSE, crs |-> "WGS"]

\* the loop while (ss >> tok) from position i with the state st =
\* [crs, datum, heading, hasCRS, hasDatum, hasHeading]
RECURSIVE descLoop(_, _, _)
descLoop(str, i, st) ==
    LET t == readToken(str, i)
    IN  IF ~t.ok THEN st
        ELSE IF t.tok = TokCRS
        THEN LET n == readToken(str, t.next)
             IN  IF ~n.ok THEN st
                 ELSE IF parseCRS(n.tok).ok
                      THEN descLoop(str, n.next,
                             [st EXCEPT !.crs = parseCRS(n.tok).crs, !.hasCRS = TRUE])
                      ELSE descLoop(str, n.next, st)
        ELSE IF t.tok = TokDATUM
        THEN LET a == readDouble(str, t.next)
                 b == readDouble(str, a.next)
                 c == readDouble(str, b.next)
             IN  IF ~a.ok THEN [st EXCEPT !.datum.lat = 0]
                 ELSE IF ~b.ok THEN [st EXCEPT !.datum.lat = a.val, !.datum.lon = 0]
                 ELSE IF ~c.ok
                 THEN [st EXCEPT !.datum.lat = a.val, !.datum.lon = b.val, !.datum.alt = 0]
                 ELSE descLoop(str, c.next,
                        [st EXCEPT !.datum = [lat |-> a.val, lon |-> b.val, alt |-> c.val],
                                   !.hasDatum = TRUE])
        ELSE IF t.tok = TokHEADING
        THEN LET y == readDouble(str, t.next)
             IN  IF ~y.ok THEN st
                 ELSE descLoop(str, y.next, [st EXCEPT !.heading = y.val, !.hasHeading = TRUE])
        ELSE descLoop(str, t.next, st)

\* detail::readString for count > 0 bytes that could be read: the bytes up
\* to the first NUL
upToNul(b) ==
    LET nuls == {k \in 1..Len(b) : b[k] = 0}
    IN  IF nuls = {} THEN b
        ELSE SubSeq(b, 1, (CHOOSE k \in nuls : \A j \in nuls : k <= j) - 1)

\* concord::Datum::is_set of the external geodesy library
is_set(datum) == datum.lat # 0 /\ datum.lon # 0

\* d <= 0 for the double with image bits (least significant byte first): not
\* a NaN, and negative or zero
leqZero(bits) ==
    LET expo == (bits[8] % 128) * 16 + bits[7] \div 16
        mantissaZero == (bits[7] % 16 = 0) /\ \A k \in 1..6 : bits[k] = 0
        isNaN == expo = 2047 /\ ~mantissaZero
    IN  ~isNaN /\ (bits[8] >= 128 \/ (expo = 0 /\ mantissaZero))

(***************************************************************************)
(* ReadRasterCollection: the header, one iteration of the directory loop,  *)
(* and the end of the walk.  The collection being built is                 *)
(*   [layers, crs, datum, heading, resolution]                             *)
(* with resolution the 8-byte image of a double.                           *)
(***************************************************************************)
\* a default-constructed geotiv::RasterCollection; resolution has no
\* initializer and is assigned by the first directory before it is read
emptyCollection ==
    [layers |-> <<>>, crs |-> "ENU", datum |-> [lat |-> 0, lon |-> 0, alt |-> 0],
     heading |-> 0, resolution |-> DoubleBits(0)]

\* totalBytes += count over the first k strip byte counts
RECURSIVE totalOf(_, _)
totalOf(counts, k) == IF k = 0 THEN 0 ELSE SatAdd(totalOf(counts, k - 1), counts[k])

\* the bytes of the strips, concatenated in stripOffsets order
RECURSIVE readStrips(_, _, _, _)
readStrips(file, offs, counts, i) ==
    IF i > Len(offs) THEN <<>>
    ELSE bytesAt(file, offs[i], counts[i]) \o readStrips(file, offs, counts, i + 1)

\* every strip can be read in full
stripsReadable(file, offs, counts) ==
    \A i \in 1..Len(offs) : canRead(file, offs[i], counts[i])

\* a grid filled from the first width*height bytes whatever the layout
fillGridFirstPlane(pix, width, height, samplesPerPixel, planarConfig) ==
    [rows |-> height, cols |-> width, data |-> [k \in 1..(width * height) |-> pix[k]]]

\* the grid the loops at the end of the iteration fill from pix
fillGrid(pix, width, height, samplesPerPixel, planarConfig) ==
    [rows |-> height, cols |-> width,
     data |-> [k \in 1..(width * height) |->
                 IF planarConfig = 1 THEN pix[(k - 1) * samplesPerPixel + 1] ELSE pix[k]]]

\* the outcome of the geotag block: [err, crs, datum, heading, resolution]
geoMeta(m, c, d, h, r) == [err |-> m, crs |-> c, datum |-> d, heading |-> h, resolution |-> r]

\* a resolution taken from a ModelPixelScale of one value as well
geoScaleAnyCount(scales, crs, datum, heading, prc) ==
    IF ~scales.ok THEN geoMeta(ErrRead, crs, datum, heading, prc.resolution)
    ELSE IF Len(scales.vals) >= 1
    THEN IF leqZero(scales.vals[1]) THEN geoMeta(ErrScale, crs, datum, heading, scales.vals[1])
         ELSE geoMeta(ErrNone, crs, datum, heading, scales.vals[1])
    ELSE geoMeta(ErrNone, crs, datum, heading, DoubleBits(Scale))

\* "ModelPixelScale -> resolution", with scales what readDoubles(33550) gave
geoScale(scales, crs, datum, heading, prc) ==
    IF ~scales.ok THEN geoMeta(ErrRead, crs, datum, heading, prc.resolution)
    ELSE IF Len(scales.vals) >= 2
    THEN IF leqZero(scales.vals[1]) THEN geoMeta(ErrScale, crs, datum, heading, scales.vals[1])
         ELSE geoMeta(ErrNone, crs, datum, heading, scales.vals[1])
    ELSE geoMeta(ErrNone, crs, datum, heading, DoubleBits(Scale))

\* a geotag block that takes a description without a complete DATUM as it is
geoDescLenient(E, file, little, prc, st) ==
    geoScale(readDoubles(E, 33550, file, little),
             IF st.hasCRS THEN st.crs ELSE "WGS",
             st.datum,
             IF st.hasHeading THEN st.heading ELSE 0,
             prc)

\* the ImageDescription was read as desc: tokens, then the defaults
geoDesc(E, file, little, prc, st) ==
    IF ~st.hasDatum THEN geoMeta(ErrDatum, prc.crs, prc.datum, prc.heading, prc.resolution)
    ELSE geoScale(readDoubles(E, 33550, file, little),
                  IF st.hasCRS THEN st.crs ELSE "WGS",
                  st.datum,
                  IF st.hasHeading THEN st.heading ELSE 0,
                  prc)

\* detail::readString: [ok, str]
readString(file, offset, count) ==
    IF count = 0 THEN [ok |-> TRUE, str |-> <<>>]
    ELSE IF ~canRead(file, offset, count) THEN [ok |-> FALSE, str |-> <<>>]
    ELSE [ok |-> TRUE, str |-> upToNul(bytesAt(file, offset, count))]

geoString(E, file, little, prc, rs) ==
    IF ~rs.ok THEN geoMeta(ErrString, prc.crs, prc.datum, prc.heading, prc.resolution)
    ELSE geoDesc(E, file, little, prc,
            descLoop(rs.str, 1,
                [crs |-> prc.crs, datum |-> prc.datum, heading |-> prc.heading,
                 hasCRS |-> FALSE, hasDatum |-> FALSE, hasHeading |-> FALSE]))

\* "Parse geotags on first IFD only": [err, crs, datum, heading, resolution]
firstIFDGeo(E, file, little, prc) ==
    IF 270 \in DOMAIN E /\ E[270].type = 2
    THEN geoString(E, file, little, prc, readString(file, E[270].valueOffset, E[270].count))
    ELSE geoScale(readDoubles(E, 33550, file, little),
                  "WGS", [lat |-> 0, lon |-> 0, alt |-> 0], 0, prc)

\* the geotiv::Layer the iteration appends: the reader assigns ifdOffset,
\* the dimensions, the sample layout, the strip arrays and the grid; every
\* other member keeps the value of a default-constructed Layer (types.hpp)
parsedLayer(off, width, height, spp, pc, offs, counts, grid) ==
    [ifdOffset |-> off, width |-> width, height |-> height,
     samplesPerPixel |-> spp, planarConfig |-> pc,
     stripOffsets |-> offs, stripByteCounts |-> counts,
     crs |-> "WGS", datum |-> [lat |-> 0, lon |-> 0, alt |-> 0], heading |-> 0,
     resolution |-> DoubleBits(Scale), imageDescription |-> <<>>,
     customTags |-> <<>>, grid |-> grid]

\* the result of one iteration of while (nextIFD): [err, next, first, prc]
ifdFail(m, first, prc) == [err |-> m, next |-> 0, first |-> first, prc |-> prc]

\* the end of the iteration: the datum check, the grid, the append
ifdAppend(off, next, prc, geo, w, h, spp, pc, offs, counts, pix) ==
    IF geo.err # ErrNone THEN ifdFail(geo.err, FALSE, prc)
    ELSE IF ~is_set(geo.datum) THEN ifdFail(ErrDatumUnset, FALSE, prc)
    ELSE [err |-> ErrNone, next |-> next, first |-> FALSE,
          prc |-> [layers |-> Append(prc.layers,
                      parsedLayer(off, w, h, spp, pc, offs, counts,
                                  fillGrid(pix, w, h, spp, pc))),
                   crs |-> geo.crs, datum |-> geo.datum,
                   heading |-> geo.heading, resolution |-> geo.resolution]]

\* a strip check that only asks for enough bytes: < where the code has !=
ifdPixelsAtLeast(file, little, off, first, prc, E, next, w, h, spp, pc, so, sc) ==
    IF ~so.ok \/ ~sc.ok THEN ifdFail(ErrRead, first, prc)
    ELSE IF so.vals = <<>> \/ sc.vals = <<>> THEN ifdFail(ErrNoStrips, first, prc)
    ELSE IF Len(so.vals) # Len(sc.vals) THEN ifdFail(ErrStripArrays, first, prc)
    ELSE IF totalOf(sc.vals, Len(sc.vals)) < SatMul(SatMul(w, h), spp)
    THEN ifdFail(ErrStripCount, first, prc)
    ELSE IF totalOf(sc.vals, Len(sc.vals)) = Huge \/ ~stripsReadable(file, so.vals, sc.vals)
    THEN ifdFail(ErrStripData, first, prc)
    ELSE ifdAppend(off, next, prc,
            IF first THEN firstIFDGeo(E, file, little, prc)
            ELSE geoMeta(ErrNone, prc.crs, prc.datum, prc.heading, prc.resolution),
            w, h, spp, pc, so.vals, sc.vals, readStrips(file, so.vals, sc.vals, 1))

\* the strip arrays were read: the byte total, the strips, the geotags
ifdPixels(file, little, off, first, prc, E, next, w, h, spp, pc, so, sc) ==
    IF ~so.ok \/ ~sc.ok THEN ifdFail(ErrRead, first, prc)
    ELSE IF so.vals = <<>> \/ sc.vals = <<>> THEN ifdFail(ErrNoStrips, first, prc)
    ELSE IF Len(so.vals) # Len(sc.vals) THEN ifdFail(ErrStripArrays, first, prc)
    ELSE IF totalOf(sc.vals, Len(sc.vals)) # SatMul(SatMul(w, h), spp)
    THEN ifdFail(ErrStripCount, first, prc)
    ELSE IF totalOf(sc.vals, Len(sc.vals)) = Huge \/ ~stripsReadable(file, so.vals, sc.vals)
    THEN ifdFail(ErrStripData, first, prc)
    ELSE ifdAppend(off, next, prc,
            IF first THEN firstIFDGeo(E, file, little, prc)
            ELSE geoMeta(ErrNone, prc.crs, prc.datum, prc.heading, prc.resolution),
            w, h, spp, pc, so.vals, sc.vals, readStrips(file, so.vals, sc.vals, 1))

\* a sample layout that takes any bit depth
ifdSamplesAnyBits(file, little, off, first, prc, E, next, w, h, s, p, b) ==
    IF ~s.ok \/ ~p.ok \/ ~b.ok THEN ifdFail(ErrRead, first, prc)
    ELSE ifdPixels(file, little, off, first, prc, E, next, w.val, h.val,
            IF s.val = 0 THEN 1 ELSE s.val,
            IF p.val = 0 THEN 1 ELSE p.val,
            readUInts(E, 273, file, little), readUInts(E, 279, file, little))

\* the sample layout was read: defaults, the bit depth, the strip arrays
ifdSamples(file, little, off, first, prc, E, next, w, h, s, p, b) ==
    IF ~s.ok \/ ~p.ok \/ ~b.ok THEN ifdFail(ErrRead, first, prc)
    ELSE IF (IF b.val = 0 THEN 1 ELSE b.val) # 8 THEN ifdFail(ErrBits, first, prc)
    ELSE ifdPixels(file, little, off, first, prc, E, next, w.val, h.val,
            IF s.val = 0 THEN 1 ELSE s.val,
            IF p.val = 0 THEN 1 ELSE p.val,
            readUInts(E, 273, file, little), readUInts(E, 279, file, little))

\* the dimensions were read
ifdDims(file, little, off, first, prc, E, next, w, h) ==
    IF ~w.ok \/ ~h.ok THEN ifdFail(ErrRead, first, prc)
    ELSE IF w.val = 0 \/ h.val = 0 THEN ifdFail(ErrDims, first, prc)
    ELSE ifdSamples(file, little, off, first, prc, E, next, w, h,
            getUInt(E, 277, file, little), getUInt(E, 284, file, little),
            getUInt(E, 258, file, little))

\* the entry table was read: the dimensions
ifdTable(file, little, off, first, prc, E, next) ==
    ifdDims(file, little, off, first, prc, E, next,
        getUInt(E, 256, file, little), getUInt(E, 257, file, little))

\* the entry count was read: the entry table and the next-directory offset
ifdEntries(file, little, off, first, prc, nEnt) ==
    IF ~canRead(file, off + 2, EntrySize * nEnt + 4) THEN ifdFail(ErrRead, first, prc)
    ELSE ifdTable(file, little, off, first, prc, entryMap(file, little, off, nEnt),
            decode32(bytesAt(file, off + 2 + EntrySize * nEnt, 4), little))

\* one iteration of while (nextIFD) for the directory at offset off
readIFD(file, little, off, first, prc) ==
    IF ~canRead(file, off, 2) THEN ifdFail(ErrRead, first, prc)
    ELSE ifdEntries(file, little, off, first, prc, decode16(bytesAt(file, off, 2), little))

(***************************************************************************)
(* The input collections of the model.                                     *)
(***************************************************************************)
Datum1 == [lat |-> 475000000, lon |-> 85000000, alt |-> 1000000000]   \* 47.5, 8.5, 100.0
Datum2 == [lat |-> 471234567, lon |-> 86000000, alt |-> 1500000000]   \* 47.1234567, 8.6, 150.0
DatumZero == [lat |-> 0, lon |-> 0, alt |-> 0]

Yaw30 == 300000000        \* 30.0
Res15 == 15000000         \* 1.5

\* "Time-series data point 0" (test_multi_ifd.cpp)
DescTimeSeries ==
    <<84, 105, 109, 101, 45, 115, 101, 114, 105, 101, 115, 32, 100, 97, 116, 97, 32,
      112, 111, 105, 110, 116, 32, 48>>
\* "CRS ENU DATUM 1.5 2.5 3 HEADING 30"
DescWithDatum ==
    <<67, 82, 83, 32, 69, 78, 85, 32, 68, 65, 84, 85, 77, 32, 49, 46, 53, 32, 50, 46,
      53, 32, 51, 32, 72, 69, 65, 68, 73, 78, 71, 32, 51, 48>>

\* a rows x cols grid whose cells all differ (37 is odd): seed, seed+37, ...
gridOf(rows, cols, seed) ==
    [rows |-> rows, cols |-> cols,
     data |-> [k \in 1..(rows * cols) |-> (seed + 37 * (k - 1)) % 256]]

\* a layer as the tests build it: one sample a pixel, chunky, datum set,
\* no custom description, no custom tags
BaseLayer(cols, rows, seed) ==
    [grid |-> gridOf(rows, cols, seed), samplesPerPixel |-> 1, planarConfig |-> 1,
     datum |-> Datum1, shift |-> [x |-> 0, y |-> 0, z |-> 0, yaw |-> 0],
     resolution |-> Scale, imageDescription |-> <<>>, customTags |-> <<>>]

TagsSingle == (50000 :> <<1000>>)
TagsMulti == (50001 :> <<2000>>) @@ (50201 :> <<42, 101, 201>>)

GridLayers == {BaseLayer(c, r, 7) : c \in 1..MaxDim, r \in 1..MaxDim} \cup {BaseLayer(2, 1, 250)}

\* samplesPerPixel and planarConfig away from 1; 0 is the value of a
\* default-constructed Layer
SampleLayers ==
    {[BaseLayer(2, 1, 7) EXCEPT !.samplesPerPixel = sp[1], !.planarConfig = sp[2]] :
        sp \in {<<0, 1>>, <<2, 1>>, <<2, 2>>, <<1, 2>>, <<1, 0>>}}

MetaLayers ==
    { [BaseLayer(1, 2, 7) EXCEPT !.datum = Datum2, !.shift.yaw = Yaw30, !.resolution = Res15],
      [BaseLayer(1, 1, 7) EXCEPT !.shift.yaw = Yaw30],
      [BaseLayer(1, 1, 7) EXCEPT !.datum = DatumZero] }

DescLayers ==
    { [BaseLayer(1, 1, 7) EXCEPT !.imageDescription = DescTimeSeries],
      [BaseLayer(1, 1, 7) EXCEPT !.imageDescription = DescWithDatum] }

\* two tags of several values each
TagsArrays == (50010 :> <<1, 2>>) @@ (50020 :> <<3, 4, 5>>)

\* a tag without values before a tag of two
TagsEmpty == (50030 :> <<>>) @@ (50040 :> <<9, 8>>)

TagLayers ==
    { [BaseLayer(1, 1, 7) EXCEPT !.customTags = TagsSingle],
      [BaseLayer(2, 1, 7) EXCEPT !.customTags = TagsMulti],
      [BaseLayer(1, 1, 7) EXCEPT !.customTags = TagsArrays],
      [BaseLayer(1, 1, 7) EXCEPT !.customTags = TagsEmpty] }

\* a default-constructed grid: no rows, no columns
EmptyLayers == {BaseLayer(0, 0, 7)}

LayerChoices ==
    GridLayers \cup SampleLayers \cup MetaLayers \cup DescLayers \cup TagLayers \cup EmptyLayers

Collections == UNION {[1..n -> LayerChoices] : n \in 0..MaxLayers}

(***************************************************************************)
(* The state.                                                              *)
(***************************************************************************)
VARIABLES
    rc,        \* the layers of the RasterCollection handed to the writer
    stage,     \* "init", "built", "buildError", "file", "walk", "done", "error"
    buf,       \* what toTiffBytes returned
    werr,      \* the error toTiffBytes raised, or "none"
    file,      \* the bytes of the file on disk
    little,    \* the reader's byte order
    nextIFD,   \* the reader's nextIFD
    first,     \* the reader's firstIFD flag
    prc,       \* the collection the reader is building
    perr,      \* the error the reader raised, or "none"
    bomRead,   \* how many bytes f.read(bom, 2) delivered (its gcount)
    pokes,     \* how many times the file was damaged after it was written
    grid_layers_,  \* Raster::grid_layers_
    charSigned,    \* whether char is a signed type on the build the Raster runs on
    shapes,    \* the sizes of the layers handed to the layout planner
    regions,   \* the regions the planner assigned: [kind, layer, start, size]
    writes     \* the byte ranges the emission wrote: [kind, layer, from, to]

rasterVars == <<grid_layers_, charSigned>>

planVars == <<shapes, regions, writes>>

vars == <<rc, stage, buf, werr, file, little, nextIFD, first, prc, perr, bomRead, pokes,
          rasterVars, planVars>>

\* no Raster is in use
IdleRaster == grid_layers_ = <<>> /\ charSigned = FALSE

\* the layout planner is not followed
IdlePlan == shapes = <<>> /\ regions = <<>> /\ writes = <<>>

ErrNoLayers == "toTiffBytes(): no layers"

\* largest number of directories the model lets the reader walk
MaxWalk == 4

\* what bom[] may hold where f.read left it unassigned
StaleBom == {<<73, 73>>, <<77, 77>>, <<0, 0>>}

InitReader ==
    /\ little = FALSE
    /\ nextIFD = 0
    /\ first = TRUE
    /\ prc = emptyCollection
    /\ perr = ErrNone
    /\ bomRead = 2
    /\ pokes = 0

\* what is at the output path before the call: no file, or a file "old"
OldFiles == {<<>>, <<111, 108, 100>>}

Init ==
    /\ rc \in Collections
    /\ stage = "init"
    /\ buf = <<>>
    /\ werr = ErrNone
    /\ file \in OldFiles
    /\ InitReader
    /\ IdleRaster
    /\ IdlePlan

\* toTiffBytes on a collection with layers
Build ==
    /\ stage = "init"
    /\ Len(rc) # 0
    /\ buf' = toTiffBytes(rc)
    /\ stage' = "built"
    /\ UNCHANGED <<rc, werr, file, little, nextIFD, first, prc, perr, bomRead, pokes,
                 rasterVars, planVars>>

\* toTiffBytes without the check of N: a header and nothing else
BuildFailHeaderOnly ==
    /\ stage = "init"
    /\ Len(rc) = 0
    /\ buf' = headerBytes(rc)
    /\ stage' = "built"
    /\ UNCHANGED <<rc, werr, file, little, nextIFD, first, prc, perr, bomRead, pokes,
                 rasterVars, planVars>>

\* a writer that opens the output file before it builds the buffer: a file
\* that was there is cut to nothing
BuildFailOpensFirst ==
    /\ stage = "init"
    /\ Len(rc) = 0
    /\ werr' = ErrNoLayers
    /\ stage' = "buildError"
    /\ file' = <<>>
    /\ UNCHANGED <<rc, buf, little, nextIFD, first, prc, perr, bomRead, pokes,
                 rasterVars, planVars>>

\* toTiffBytes on a collection without layers: throws before anything else
BuildFail ==
    /\ stage = "init"
    /\ Len(rc) = 0
    /\ werr' = ErrNoLayers
    /\ stage' = "buildError"
    /\ UNCHANGED <<rc, buf, file, little, nextIFD, first, prc, perr, bomRead, pokes,
                 rasterVars, planVars>>

\* WriteRasterCollection after toTiffBytes returned: the bytes go to the file
Persist ==
    /\ stage = "built"
    /\ file' = buf
    /\ stage' = "file"
    /\ UNCHANGED <<rc, buf, werr, little, nextIFD, first, prc, perr, bomRead, pokes,
                 rasterVars, planVars>>

\* a header read that does not compare the magic with 42
readHeaderNoMagic(f, stale) ==
    LET bom == [k \in 1..2 |-> IF k <= Len(f) THEN f[k] ELSE stale[k]]
        le == bom = <<73, 73>>
        hdr(m, n) == [err |-> m, little |-> le, nextIFD |-> n]
    IN  IF ~le /\ bom # <<77, 77>> THEN hdr(ErrByteOrder, 0)
        ELSE IF ~canRead(f, 2, 2) THEN hdr(ErrRead, 0)
        ELSE IF ~canRead(f, 4, 4) THEN hdr(ErrRead, 0)
        ELSE hdr(ErrNone, decode32(bytesAt(f, 4, 4), le))

\* the outcome of step 1 of ReadRasterCollection, the header, when bom[]
\* held stale before f.read: [err, little, nextIFD]
readHeader(f, stale) ==
    LET bom == [k \in 1..2 |-> IF k <= Len(f) THEN f[k] ELSE stale[k]]
        le == bom = <<73, 73>>
        hdr(m, n) == [err |-> m, little |-> le, nextIFD |-> n]
    IN  IF ~le /\ bom # <<77, 77>> THEN hdr(ErrByteOrder, 0)
        ELSE IF ~canRead(f, 2, 2) THEN hdr(ErrRead, 0)
        ELSE IF decode16(bytesAt(f, 2, 2), le) # 42 THEN hdr(ErrMagic, 0)
        ELSE IF ~canRead(f, 4, 4) THEN hdr(ErrRead, 0)
        ELSE hdr(ErrNone, decode32(bytesAt(f, 4, 4), le))

ParseHeader ==
    /\ stage = "file"
    /\ \E stale \in StaleBom :
         LET h == readHeader(file, stale)
         IN  /\ little' = h.little
             /\ nextIFD' = h.nextIFD
             /\ perr' = h.err
             /\ stage' = IF h.err = ErrNone THEN "walk" ELSE "error"
    /\ bomRead' = Min(2, Len(file))
    /\ UNCHANGED <<rc, buf, werr, file, first, prc, pokes,
                 rasterVars, planVars>>

\* rc.layers grows with every directory walked; the model keeps its first
\* MaxWalk layers and leaves out the ones appended after them
capLayers(p) == [p EXCEPT !.layers = SubSeq(@, 1, Min(Len(@), MaxWalk))]

\* one iteration of while (nextIFD)
ParseIFD ==
    /\ stage = "walk"
    /\ nextIFD # 0
    /\ LET r == readIFD(file, little, nextIFD, first, prc)
       IN  /\ perr' = r.err
           /\ stage' = IF r.err = ErrNone THEN "walk" ELSE "error"
           /\ nextIFD' = IF r.err = ErrNone THEN r.next ELSE nextIFD
           /\ first' = r.first
           /\ prc' = capLayers(r.prc)
    /\ UNCHANGED <<rc, buf, werr, file, little, bomRead, pokes,
                 rasterVars, planVars>>

\* the loop ended: the collection is returned unless it has no layer
\* an end of the walk that returns whatever was collected
ParseEndAllowEmpty ==
    /\ stage = "walk"
    /\ nextIFD = 0
    /\ perr' = ErrNone
    /\ stage' = "done"
    /\ UNCHANGED <<rc, buf, werr, file, little, nextIFD, first, prc, bomRead, pokes,
                 rasterVars, planVars>>

ParseEnd ==
    /\ stage = "walk"
    /\ nextIFD = 0
    /\ perr' = IF prc.layers = <<>> THEN ErrNoIFD ELSE ErrNone
    /\ stage' = IF prc.layers = <<>> THEN "error" ELSE "done"
    /\ UNCHANGED <<rc, buf, werr, file, little, nextIFD, first, prc, bomRead, pokes,
                 rasterVars, planVars>>

Next == Build \/ BuildFail \/ Persist \/ ParseHeader \/ ParseIFD \/ ParseEnd

Spec == Init /\ [][Next]_vars

(***************************************************************************)
(* Reading files that toTiffBytes did not leave as it wrote them: the      *)
(* file on disk is written by WriteRasterCollection or by another program, *)
(* and may be cut short or have bytes changed before it is read.           *)
(***************************************************************************)
\* the most changes made to a file before it is read
MaxPokes == 1

\* the byte values a change writes: 0, 1, the type codes 2 and 3, the low
\* byte of tag 284, 'M', 255
PokeValues == {0, 1, 2, 3, 28, 77, 255}

\* "This is not a TIFF file" (test_parser.cpp)
TextFile ==
    <<84, 104, 105, 115, 32, 105, 115, 32, 110, 111, 116, 32, 97, 32, 84, 73, 70, 70,
      32, 102, 105, 108, 101>>

\* a big-endian header without directories
MotorolaFile == <<77, 77, 0, 42, 0, 0, 0, 0>>

\* the collections whose files are read back damaged
SeedCollections ==
    { <<[BaseLayer(2, 1, 7) EXCEPT !.resolution = Res15, !.planarConfig = 2]>>,
      <<[BaseLayer(1, 1, 7) EXCEPT !.customTags = TagsSingle],
        [BaseLayer(1, 2, 7) EXCEPT !.datum = Datum2, !.resolution = Res15]>> }

\* the file with the four bytes from offset pos on replaced
overwrite32(f, pos, v) ==
    [k \in 1..Len(f) |-> IF k > pos /\ k <= pos + 4 THEN writeLE32(v)[k - pos] ELSE f[k]]

\* a file of one layer, two pixels of two samples each, read as two strips:
\* StripOffsets and StripByteCounts are arrays of two LONGs behind the end of
\* the written file, and the strip named first is the second half of the
\* pixel bytes
TwoStripFile ==
    LET c == <<[BaseLayer(2, 1, 7) EXCEPT !.samplesPerPixel = 2]>>
        base == toTiffBytes(c)
        e273 == firstIFD(c) + 2 + 6 * EntrySize
        e279 == firstIFD(c) + 2 + 9 * EntrySize
        arrays == writeLE32(HeaderSize + 2) \o writeLE32(HeaderSize) \o writeLE32(2) \o writeLE32(2)
    IN  overwrite32(overwrite32(overwrite32(overwrite32(base,
            e273 + 4, 2), e273 + 8, Len(base)), e279 + 4, 2), e279 + 8, Len(base) + 8) \o arrays

SeedFiles == {toTiffBytes(c) : c \in SeedCollections} \cup {TextFile, MotorolaFile, TwoStripFile}

InitRead ==
    /\ rc = <<>>
    /\ stage = "file"
    /\ buf = <<>>
    /\ werr = ErrNone
    /\ file \in SeedFiles
    /\ InitReader
    /\ IdleRaster
    /\ IdlePlan

\* one byte of the file is overwritten
Poke ==
    /\ stage = "file"
    /\ pokes < MaxPokes
    /\ \E p \in 1..Len(file), v \in PokeValues :
         /\ file[p] # v
         /\ file' = [file EXCEPT ![p] = v]
    /\ pokes' = pokes + 1
    /\ UNCHANGED <<rc, stage, buf, werr, little, nextIFD, first, prc, perr, bomRead,
                 rasterVars, planVars>>

\* the file is cut short
Truncate ==
    /\ stage = "file"
    /\ pokes < MaxPokes
    /\ \E n \in 0..(Len(file) - 1) : file' = SubSeq(file, 1, n)
    /\ pokes' = pokes + 1
    /\ UNCHANGED <<rc, stage, buf, werr, little, nextIFD, first, prc, perr, bomRead,
                 rasterVars, planVars>>

NextRead == Poke \/ Truncate \/ ParseHeader \/ ParseIFD \/ ParseEnd

SpecRead == InitRead /\ [][NextRead]_vars

(***************************************************************************)
(* Reading files whose directory chain was linked by another program: the  *)
(* next-directory offset of a directory may name any directory before it.  *)
(* ReadRasterCollection is one synchronous call: once it has been called,  *)
(* each of its steps that can be taken is taken.                           *)
(***************************************************************************)
\* the directory offsets met when the chain is walked from offset off, at
\* most fuel of them
RECURSIVE chainFrom(_, _, _, _)
chainFrom(f, le, off, fuel) ==
    IF off = 0 \/ fuel = 0 \/ ~canRead(f, off, 2) THEN <<>>
    ELSE LET n == decode16(bytesAt(f, off, 2), le)
         IN  IF ~canRead(f, off + 2, EntrySize * n + 4) THEN <<off>>
             ELSE <<off>> \o chainFrom(f, le, decode32(bytesAt(f, off + 2 + EntrySize * n, 4), le),
                                       fuel - 1)

\* the directory chain of a little-endian buffer, from its header
chainOf(f) == chainFrom(f, TRUE, decode32(bytesAt(f, 4, 4), TRUE), MaxWalk)

\* where the directory at offset off keeps its next-directory offset
nextFieldAt(f, off) == off + 2 + EntrySize * decode16(bytesAt(f, off, 2), TRUE)

\* the next-directory offset of a directory of the chain is set to 0 or to
\* the offset of a directory before it in the chain
Relink ==
    /\ stage = "file"
    /\ pokes < MaxPokes
    /\ Len(file) >= HeaderSize
    /\ LET chain == chainOf(file)
       IN  \E i \in 1..Len(chain) :
             \E t \in ({0} \cup {chain[j] : j \in 1..(i - 1)}) \ {chain[i]} :
                /\ canRead(file, nextFieldAt(file, chain[i]), 4)
                /\ file' = overwrite32(file, nextFieldAt(file, chain[i]), t)
                /\ file' # file
    /\ pokes' = pokes + 1
    /\ UNCHANGED <<rc, stage, buf, werr, little, nextIFD, first, prc, perr, bomRead,
                 rasterVars, planVars>>

NextWalk == Relink \/ Truncate \/ ParseHeader \/ ParseIFD \/ ParseEnd

\* the loop condition holds: ParseIFD can be taken
walking == stage = "walk" /\ nextIFD # 0

\* weak fairness of every step of the call; for ParseIFD it is written with
\* the loop condition in the place of ENABLED <<ParseIFD>>_vars
SpecWalk ==
    /\ InitRead
    /\ [][NextWalk]_vars
    /\ WF_vars(ParseHeader)
    /\ WF_vars(ParseEnd)
    /\ ([]<>~walking \/ []<><<ParseIFD>>_vars)

(***************************************************************************)
(* Global properties: key=value strings kept as custom tags of a layer     *)
(* (types.hpp).  A uint32_t word is written as the integer with the same   *)
(* 32 bits, so that a word whose top bit is set is negative.               *)
(***************************************************************************)
GLOBAL_PROPERTIES_BASE_TAG == 50100

\* the number of tags from the base tag on that hold properties
PropertySlots == 1000

\* the most properties set on a layer
MaxProps == 2

\* static_cast<uint32_t>(char) << (j * 8), OR-ed into the word for j = 0..3:
\* byte k of the word.  Where char is signed a byte >= 0x80 is sign-extended
\* and fills every higher byte of the word with ones
wordByte(group, k, signedChar) ==
    IF signedChar /\ \E j \in 1..(k - 1) : group[j] >= 128 THEN 255 ELSE group[k]

\* the word with the bytes b, least significant first
wordOf(b) ==
    b[1] + 256 * b[2] + 65536 * b[3] + 16777216 * (IF b[4] >= 128 THEN b[4] - 256 ELSE b[4])

\* str + NUL, padded with NULs to a multiple of four bytes
padded(str) ==
    LET n == 4 * ((Len(str) + 4) \div 4)
    IN  [k \in 1..n |-> IF k <= Len(str) THEN str[k] ELSE 0]

stringToAsciiTag(str, signedChar) ==
    LET p == padded(str)
    IN  [w \in 1..(Len(p) \div 4) |->
            wordOf([k \in 1..4 |-> wordByte(SubSeq(p, 4 * w - 3, 4 * w), k, signedChar)])]

\* the bytes (value >> (j * 8)) & 0xFF, j = 0..3, of every word in turn, up
\* to the first NUL
asciiTagToString(data) ==
    upToNul(Flatten([w \in 1..Len(data) |-> writeLE32(data[w])]))

\* std::hash<std::string> is left to the implementation; the model takes the
\* sum of the bytes, under which "ab" and "ba" meet in one slot
hasher(key) == SumSeq(key)

\* Layer::setGlobalProperty: the layer's customTags afterwards
setGlobalProperty(layer, key, value, signedChar) ==
    LET tag == GLOBAL_PROPERTIES_BASE_TAG + (hasher(key) % PropertySlots)
    IN  [layer EXCEPT !.customTags =
            (tag :> stringToAsciiTag(key \o <<61>> \o value, signedChar)) @@ @]

\* the first position of '=' in str, 0 if there is none
findEq(str) ==
    LET eqs == {k \in 1..Len(str) : str[k] = 61}
    IN  IF eqs = {} THEN 0 ELSE CHOOSE k \in eqs : \A j \in eqs : k <= j

\* props after the loop of getGlobalProperties met the first n tags of ks
RECURSIVE propsUpTo(_, _, _)
propsUpTo(layer, ks, n) ==
    IF n = 0 THEN <<>>
    ELSE LET keyValue == asciiTagToString(layer.customTags[ks[n]])
             eq_pos == findEq(keyValue)
         IN  IF /\ ks[n] >= GLOBAL_PROPERTIES_BASE_TAG
                /\ ks[n] < GLOBAL_PROPERTIES_BASE_TAG + PropertySlots
                /\ eq_pos # 0
             THEN (SubSeq(keyValue, 1, eq_pos - 1) :>
                      SubSeq(keyValue, eq_pos + 1, Len(keyValue)))
                  @@ propsUpTo(layer, ks, n - 1)
             ELSE propsUpTo(layer, ks, n - 1)

\* Layer::getGlobalProperties: the map from key to value
getGlobalProperties(layer) ==
    propsUpTo(layer, customTagKeys(layer), Len(customTagKeys(layer)))

\* keys: "k", "ab", "ba", "e" with an acute accent in UTF-8, its two bytes
\* in the other order, and "a=b"
PropKeys == {<<107>>, <<97, 98>>, <<98, 97>>, <<195, 169>>, <<169, 195>>, <<97, 61, 98>>}

\* values: "v", "", "x=y", "abcd", and "e" with an acute accent in UTF-8
PropValues == {<<118>>, <<>>, <<120, 61, 121>>, <<97, 98, 99, 100>>, <<195, 169>>}

InitProps ==
    /\ rc = <<BaseLayer(1, 1, 7)>>
    /\ stage = "init"
    /\ buf = <<>>
    /\ werr = ErrNone
    /\ file = <<>>
    /\ InitReader
    /\ IdleRaster
    /\ IdlePlan

\* layer.setGlobalProperty(key, value) on the layer of the collection; the
\* signedness of char is the build's
SetGlobalProperty ==
    /\ stage = "init"
    /\ \E key \in PropKeys, value \in PropValues, signedChar \in BOOLEAN :
         /\ rc' = [rc EXCEPT ![1] = setGlobalProperty(@, key, value, signedChar)]
         /\ Cardinality(DOMAIN rc'[1].customTags) <= MaxProps
    /\ UNCHANGED <<stage, buf, werr, file, little, nextIFD, first, prc, perr, bomRead, pokes,
                 rasterVars, planVars>>

NextProps == SetGlobalProperty

SpecProps == InitProps /\ [][NextProps]_vars

(***************************************************************************)
(* The Raster (raster.hpp): a list of grid layers that are meant to carry  *)
(* the same global properties.  A GridLayer keeps its properties in        *)
(* customTags with the code of Layer (raster.hpp 24-45 repeats types.hpp   *)
(* 90-111), so setGlobalProperty and getGlobalProperties serve both.  The  *)
(* cells of the grid play no part in the operations below and are left     *)
(* out of a layer.                                                         *)
(***************************************************************************)

\* the most layers of the Raster
MaxGrids == 3

\* keys of the Raster operations: "k", "a", "a=b" and "e" with an acute
\* accent in UTF-8
RasterKeys == {<<107>>, <<97>>, <<97, 61, 98>>, <<195, 169>>}

\* values of the Raster operations: "v" and "w"
RasterValues == {<<118>>, <<119>>}

\* the name and the type of an added grid: addTerrainGrid, or addGrid with
\* the default type
GridKinds == {<<"terrain", "terrain">>, <<"layer", "">>}

\* the GridLayer addGrid builds: props["type"] = type unless type is empty
GridLayer(name, type) ==
    [name |-> name, type |-> type,
     properties |-> IF type # "" THEN ("type" :> type) ELSE <<>>,
     customTags |-> <<>>]

\* the orders in which a loop may meet the keys of an unordered_map
iterationOrders(keys) ==
    {o \in [1..Cardinality(keys) -> keys] : \A k \in keys : \E i \in DOMAIN o : o[i] = k}

\* the layer after setGlobalProperty(key, value) for the first n keys of order
RECURSIVE applyProps(_, _, _, _, _)
applyProps(layer, globalProps, order, n, signedChar) ==
    IF n = 0 THEN layer
    ELSE setGlobalProperty(applyProps(layer, globalProps, order, n - 1, signedChar),
                           order[n], globalProps[order[n]], signedChar)

\* Raster::addGrid: the new layer goes last and, unless it is the only one,
\* receives the properties read back from layer 0
addGrid(layers, name, type, order, signedChar) ==
    IF Len(layers) + 1 > 1
    THEN LET globalProps == getGlobalProperties(layers[1])
         IN  Append(layers, applyProps(GridLayer(name, type), globalProps, order,
                                       Len(order), signedChar))
    ELSE Append(layers, GridLayer(name, type))

\* Raster::removeGrid: index counts from 0
removeGrid(layers, index) ==
    IF index < Len(layers)
    THEN SubSeq(layers, 1, index) \o SubSeq(layers, index + 2, Len(layers))
    ELSE layers

\* Raster::setGlobalProperty: every layer in turn
rasterSetGlobalProperty(layers, key, value, signedChar) ==
    [i \in 1..Len(layers) |-> setGlobalProperty(layers[i], key, value, signedChar)]

\* customTags.erase(tag)
eraseTag(layer, tag) ==
    [layer EXCEPT !.customTags = [t \in DOMAIN @ \ {tag} |-> @[t]]]

\* Raster::removeGlobalProperty
removeGlobalProperty(layers, key) ==
    LET tag == GLOBAL_PROPERTIES_BASE_TAG + (hasher(key) % PropertySlots)
    IN  [i \in 1..Len(layers) |-> eraseTag(layers[i], tag)]

\* no layer holds more than MaxProps tags
withinProps(layers) ==
    \A i \in 1..Len(layers) : Cardinality(DOMAIN layers[i].customTags) <= MaxProps

InitRaster ==
    /\ rc = <<>>
    /\ stage = "init"
    /\ buf = <<>>
    /\ werr = ErrNone
    /\ file = <<>>
    /\ InitReader
    /\ grid_layers_ = <<>>
    /\ charSigned \in BOOLEAN
    /\ IdlePlan

AddGrid ==
    /\ Len(grid_layers_) < MaxGrids
    /\ \E kind \in GridKinds :
         \E order \in iterationOrders(IF grid_layers_ = <<>> THEN {}
                                      ELSE DOMAIN getGlobalProperties(grid_layers_[1])) :
            grid_layers_' = addGrid(grid_layers_, kind[1], kind[2], order, charSigned)
    /\ UNCHANGED <<rc, stage, buf, werr, file, little, nextIFD, first, prc, perr, bomRead,
                   pokes, charSigned, planVars>>

\* removeGrid(index), the indices past the last layer included
RemoveGrid ==
    /\ \E index \in 0..MaxGrids : grid_layers_' = removeGrid(grid_layers_, index)
    /\ UNCHANGED <<rc, stage, buf, werr, file, little, nextIFD, first, prc, perr, bomRead,
                   pokes, charSigned, planVars>>

ClearGrids ==
    /\ grid_layers_' = <<>>
    /\ UNCHANGED <<rc, stage, buf, werr, file, little, nextIFD, first, prc, perr, bomRead,
                   pokes, charSigned, planVars>>

RasterSetGlobalProperty ==
    /\ \E key \in RasterKeys, value \in RasterValues :
         grid_layers_' = rasterSetGlobalProperty(grid_layers_, key, value, charSigned)
    /\ withinProps(grid_layers_')
    /\ UNCHANGED <<rc, stage, buf, werr, file, little, nextIFD, first, prc, perr, bomRead,
                   pokes, charSigned, planVars>>

RemoveGlobalProperty ==
    /\ \E key \in RasterKeys : grid_layers_' = removeGlobalProperty(grid_layers_, key)
    /\ UNCHANGED <<rc, stage, buf, werr, file, little, nextIFD, first, prc, perr, bomRead,
                   pokes, charSigned, planVars>>

NextRaster ==
    \/ AddGrid
    \/ RemoveGrid
    \/ ClearGrids
    \/ RasterSetGlobalProperty
    \/ RemoveGlobalProperty

SpecRaster == InitRaster /\ [][NextRaster]_vars

(***************************************************************************)
(* The layout of toTiffBytes by sizes alone.  A layer enters as its shape: *)
(* the bytes of its strip, the length of its description, the number of    *)
(* its custom tags and the number of values held by the custom tags of     *)
(* more than one value.  The planner (writter.hpp 52-138) assigns the      *)
(* regions, the emission (writter.hpp 160-366) writes byte ranges.  This   *)
(* follows the same code as the operators on collections above and        *)
(* reaches the layers that are too wide to be built byte by byte.          *)
(***************************************************************************)
shapeOf(layer) ==
    [pixels |-> Len(stripOf(layer)),
     desc |-> Len(descriptionOf(layer)),
     tags |-> Cardinality(DOMAIN layer.customTags),
     longs |-> customDataSizeOf(layer) \div 4]

\* numbers of custom tags: none, a few, and the widths around the point
\* where a std::map<uint16_t, ...> of tags no longer fits the entry count
TagShapes ==
    {<<0, 0>>, <<2, 0>>, <<3, 5>>, <<65521, 0>>, <<65522, 0>>, <<65536, 2>>}

ShapeChoices ==
    {[pixels |-> px, desc |-> 24, tags |-> t[1], longs |-> t[2]] :
        px \in {0, 4}, t \in TagShapes}

ShapeInputs == UNION {[1..n -> ShapeChoices] : n \in 1..MaxLayers}

Region(kind, layer, start, size) ==
    [kind |-> kind, layer |-> layer, start |-> start, size |-> size]

\* the five regions of the variable-length data of layer i, from p on
varRegions(sh, i, p) ==
    << Region("description", i, p, sh[i].desc + 1),
       Region("scale", i, p + sh[i].desc + 1, ScaleBytes),
       Region("geokey", i, p + sh[i].desc + 1 + ScaleBytes, GeoKeyBytes),
       Region("tiepoint", i, p + sh[i].desc + 1 + ScaleBytes + GeoKeyBytes, TiepointBytes),
       Region("custom", i, p + sh[i].desc + 1 + ScaleBytes + GeoKeyBytes + TiepointBytes,
              4 * sh[i].longs) >>

planVarSize(sh, i) ==
    sh[i].desc + 1 + ScaleBytes + GeoKeyBytes + TiepointBytes + 4 * sh[i].longs

\* steps 2, 4 and 5 of toTiffBytes: the running offset p assigns the regions
planRegions(sh) ==
    LET N == Len(sh)
        pixels == [i \in 1..N |-> sh[i].pixels]
        sizes == [i \in 1..N |-> ifdSizeOf(entryCountOf(sh[i].tags))]
        vsizes == [i \in 1..N |-> planVarSize(sh, i)]
        firstDir == HeaderSize + PrefixSum(pixels, N)
        vars0 == firstDir + PrefixSum(sizes, N)
    IN  <<Region("header", 0, 0, HeaderSize)>>
     \o [i \in 1..N |-> Region("strip", i, HeaderSize + PrefixSum(pixels, i - 1), pixels[i])]
     \o [i \in 1..N |-> Region("directory", i, firstDir + PrefixSum(sizes, i - 1), sizes[i])]
     \o Flatten([i \in 1..N |-> varRegions(sh, i, vars0 + PrefixSum(vsizes, i - 1))])

\* totalSize = p after the last region: the size of the buffer
planTotalSize(rs) == rs[Len(rs)].start + rs[Len(rs)].size

regionOf(rs, kind, layer) ==
    rs[CHOOSE k \in 1..Len(rs) : rs[k].kind = kind /\ rs[k].layer = layer]

\* a run of writes: the bytes from..to-1; for a directory also the count in
\* its header, the entries written and the next-directory field
Write(kind, layer, from, size, count, entries, next) ==
    [kind |-> kind, layer |-> layer, from |-> from, to |-> from + size,
     count |-> count, entries |-> entries, next |-> next]

\* step 8 for layer i: the count, 14 fixed entries, one entry per custom
\* tag, the next-directory field
directoryWrite(sh, rs, i) ==
    LET entries == BaseEntries + sh[i].tags
    IN  Write("directory", i, regionOf(rs, "directory", i).start,
              2 + entries * EntrySize + 4,
              entryCountOf(sh[i].tags), entries,
              IF i + 1 <= Len(sh) THEN regionOf(rs, "directory", i + 1).start ELSE 0)

\* steps 6-9: every run of writes, in program order
planWrites(sh, rs) ==
    LET N == Len(sh)
        pixels == [i \in 1..N |-> sh[i].pixels]
    IN  <<Write("header", 0, 0, HeaderSize, 0, 0, 0)>>
     \o [i \in 1..N |->
            Write("strip", i, HeaderSize + PrefixSum(pixels, i - 1), pixels[i], 0, 0, 0)]
     \o [i \in 1..N |-> directoryWrite(sh, rs, i)]
     \o Flatten([i \in 1..N |->
           << Write("description", i, regionOf(rs, "description", i).start,
                    sh[i].desc + 1, 0, 0, 0),
              Write("scale", i, regionOf(rs, "scale", i).start, 3 * 8, 0, 0, 0),
              Write("geokey", i, regionOf(rs, "geokey", i).start,
                    2 * Len(geoKeyShorts), 0, 0, 0),
              Write("tiepoint", i, regionOf(rs, "tiepoint", i).start, 6 * 8, 0, 0, 0),
              Write("custom", i, regionOf(rs, "custom", i).start,
                    4 * sh[i].longs, 0, 0, 0) >>])

\* some write passes the end of the buffer: buf[writePos++] past buf.size()
overruns(rs, ws) == \E j \in 1..Len(ws) : ws[j].to > planTotalSize(rs)

InitPlan ==
    /\ rc = <<>>
    /\ stage = "init"
    /\ buf = <<>>
    /\ werr = ErrNone
    /\ file = <<>>
    /\ InitReader
    /\ IdleRaster
    /\ shapes \in ShapeInputs
    /\ regions = <<>>
    /\ writes = <<>>

\* steps 1-5: the regions are assigned and the buffer is allocated
PlanLayout ==
    /\ stage = "init"
    /\ shapes # <<>>
    /\ regions' = planRegions(shapes)
    /\ stage' = "planned"
    /\ UNCHANGED <<rc, buf, werr, file, little, nextIFD, first, prc, perr, bomRead, pokes,
                   rasterVars, shapes, writes>>

\* steps 6-9: the writes.  A write past the end of the buffer is undefined:
\* the call may go on to return or be stopped
Emit ==
    /\ stage = "planned"
    /\ writes' = planWrites(shapes, regions)
    /\ stage' \in (IF overruns(regions, writes') THEN {"emitted", "crashed"} ELSE {"emitted"})
    /\ UNCHANGED <<rc, buf, werr, file, little, nextIFD, first, prc, perr, bomRead, pokes,
                   rasterVars, shapes, regions>>

NextPlan ==
    \/ PlanLayout
    \/ Emit

SpecPlan == InitPlan /\ [][NextPlan]_vars

(***************************************************************************)
(* The properties.  Under Spec a parse that has ended, with stage "done"   *)
(* or "error", is the parse of the file WriteRasterCollection wrote for    *)
(* rc: parse(build(rc)).                                                   *)
(***************************************************************************)
Finished == stage \in {"done", "error"}

Abs(x) == IF x < 0 THEN -x ELSE x

\* the parsed layer has the width, height, samplesPerPixel and samples of
\* the layer that was written
sameRaster(parsed, layer) ==
    /\ parsed.width = layer.grid.cols
    /\ parsed.height = layer.grid.rows
    /\ parsed.samplesPerPixel = layer.samplesPerPixel
    /\ parsed.grid.rows = layer.grid.rows
    /\ parsed.grid.cols = layer.grid.cols
    /\ \A r \in 0..(layer.grid.rows - 1), c \in 0..(layer.grid.cols - 1) :
         GridAt(parsed.grid, r, c) = GridAt(layer.grid, r, c)

\* a collection the data model admits: N >= 1 layers, each with a non-empty
\* grid, at least one sample per pixel, chunky data and a set datum
admissible(c) ==
    /\ Len(c) >= 1
    /\ \A i \in 1..Len(c) :
          /\ c[i].grid.cols > 0
          /\ c[i].grid.rows > 0
          /\ c[i].samplesPerPixel >= 1
          /\ c[i].planarConfig = 1
          /\ is_set(c[i].datum)

\* C1: round-trip identity of raster content: for any admissible collection
\* of N >= 1 layers, parse(build(rc)) returns, for every layer, the original
\* width, height and samplesPerPixel and every original sample.
C1_RoundTripContent ==
    (Finished /\ admissible(rc)) =>
        /\ stage = "done"
        /\ Len(prc.layers) = Len(rc)
        /\ \A i \in 1..Len(rc) : sameRaster(prc.layers[i], rc[i])

\* C2: chain length and order: the directory chain of build(rc) has exactly
\* N directories and, for an admissible rc, parse returns exactly N layers, the i-th of them read
\* from the i-th directory with the i-th input layer's dimensions.
C2_ChainLengthAndOrder ==
    /\ (stage = "built") => Len(chainOf(buf)) = Len(rc)
    /\ (Finished /\ admissible(rc)) =>
          /\ stage = "done"
          /\ Len(prc.layers) = Len(rc)
          /\ \A i \in 1..Len(rc) :
               /\ prc.layers[i].ifdOffset = chainOf(file)[i]
               /\ prc.layers[i].width = rc[i].grid.cols
               /\ prc.layers[i].height = rc[i].grid.rows

\* C3: custom tag round-trip: every custom tag >= 50000 of every layer comes
\* back from parse(build(rc)) with the same tag number and the same values.
C3_CustomTagRoundTrip ==
    (stage = "done" /\ Len(prc.layers) = Len(rc)) =>
        \A i \in 1..Len(rc) :
            \A t \in DOMAIN rc[i].customTags :
                t >= 50000 =>
                    /\ t \in DOMAIN prc.layers[i].customTags
                    /\ prc.layers[i].customTags[t] = rc[i].customTags[t]

\* the datum d read back for the datum e: within 1e-3 in lat and lon and
\* within 0.1 in alt
sameDatum(d, e) ==
    /\ Abs(d.lat - e.lat) <= Scale \div 1000
    /\ Abs(d.lon - e.lon) <= Scale \div 1000
    /\ Abs(d.alt - e.alt) <= Scale \div 10

\* C4: per-layer metadata round-trip: every layer of parse(build(rc)) carries
\* its own original datum and resolution, and the collection-level datum and
\* resolution are those of the first layer.  (The resolutions of the inputs
\* are 1.0 and 1.5, so equal images is equal within the tolerance.)
C4_PerLayerMetadata ==
    (stage = "done" /\ Len(prc.layers) = Len(rc)) =>
        /\ \A i \in 1..Len(rc) :
             rc[i].imageDescription = <<>> =>
                /\ sameDatum(prc.layers[i].datum, rc[i].datum)
                /\ prc.layers[i].resolution = DoubleBits(rc[i].resolution)
        /\ rc[1].imageDescription = <<>> =>
                /\ sameDatum(prc.datum, rc[1].datum)
                /\ prc.resolution = DoubleBits(rc[1].resolution)

\* C5: orientation round-trip: the yaw written as the last field of SHIFT in
\* a generated ImageDescription is the heading parse gives the layer; for
\* the first layer the collection-level heading counts as well.
C5_YawRoundTrip ==
    (stage = "done" /\ Len(prc.layers) = Len(rc)) =>
        \A i \in 1..Len(rc) :
            rc[i].imageDescription = <<>> =>
                \/ prc.layers[i].heading = rc[i].shift.yaw
                \/ i = 1 /\ prc.heading = rc[1].shift.yaw

\* the first-directory offset in the header of a little-endian buffer
headerIFD(f) == decode32(bytesAt(f, 4, 4), TRUE)

\* some layer has pixel data: W*H*S > 0
hasPixels(c) ==
    \E i \in 1..Len(c) : c[i].grid.cols * c[i].grid.rows * c[i].samplesPerPixel > 0

\* C6 as the claim states it: build(rc) starts with 'II', 42 follows, and the
\* first-directory offset is strictly greater than 8 and strictly less than
\* the length of the buffer.
C6_HeaderStrictlyBeyond ==
    (stage = "built") =>
        /\ SubSeq(buf, 1, 2) = <<73, 73>>
        /\ decode16(bytesAt(buf, 2, 2), TRUE) = 42
        /\ headerIFD(buf) > HeaderSize
        /\ headerIFD(buf) < Len(buf)

\* C6: header well-formedness: build(rc) starts with 'II', 42 follows, and the
\* first-directory offset is at least 8, greater than 8 exactly when some
\* layer has pixel data, and strictly less than the length of the buffer.
C6_HeaderWellFormed ==
    (stage = "built") =>
        /\ SubSeq(buf, 1, 2) = <<73, 73>>
        /\ decode16(bytesAt(buf, 2, 2), TRUE) = 42
        /\ headerIFD(buf) >= HeaderSize
        /\ (headerIFD(buf) > HeaderSize) <=> hasPixels(rc)
        /\ headerIFD(buf) < Len(buf)

\* a buffer was built for a layer without pixel data beside one with
C6_Witness ==
    /\ stage = "built"
    /\ Len(rc) = 2
    /\ rc[1].samplesPerPixel = 0
    /\ headerIFD(buf) > HeaderSize

\* C7: building a collection with zero layers fails with "toTiffBytes(): no
\* layers"; no buffer is returned and nothing is written, and the error is
\* raised for no other collection.
C7_EmptyCollectionFails ==
    /\ (Len(rc) = 0) => (stage \in {"init", "buildError"} /\ buf = <<>> /\ file \in OldFiles)
    /\ (stage = "buildError") => (werr = ErrNoLayers /\ Len(rc) = 0)
    /\ (werr # ErrNone) => (stage = "buildError")

C7_Witness == stage = "buildError" /\ werr = ErrNoLayers /\ buf = <<>>

\* the file has two first bytes and they are neither 'II' nor 'MM'
badByteOrder(f) == Len(f) >= 2 /\ SubSeq(f, 1, 2) \notin {<<73, 73>>, <<77, 77>>}

\* the file has a marker and a 16-bit constant that, in the byte order of
\* the marker, is not 42
badMagic(f) ==
    /\ Len(f) >= 4
    /\ \/ SubSeq(f, 1, 2) = <<73, 73>> /\ f[3] + 256 * f[4] # 42
       \/ SubSeq(f, 1, 2) = <<77, 77>> /\ 256 * f[3] + f[4] # 42

\* C8: header validation on read: once the header was read, a file whose
\* first two bytes are neither 'II' nor 'MM' has failed with the byte-order
\* error, and one whose constant is not 42 in the marker's byte order has
\* failed with the magic error; no layer was read.
C8_HeaderValidation ==
    (stage # "file") =>
        /\ badByteOrder(file) =>
              (stage = "error" /\ perr = ErrByteOrder /\ prc.layers = <<>>)
        /\ badMagic(file) =>
              (stage = "error" /\ perr = ErrMagic /\ prc.layers = <<>>)

\* a big-endian file was rejected for its constant
C8_Witness ==
    /\ stage = "error"
    /\ perr = ErrMagic
    /\ SubSeq(file, 1, 2) = <<77, 77>>
    /\ badMagic(file)

\* C9: truncated reads are always errors: when the read of the byte-order
\* marker got fewer than its two bytes, parse has failed with the read
\* error, so that no byte it did not read decided anything.
C9_TruncatedReadsFail ==
    (stage # "file" /\ bomRead < 2) => (stage = "error" /\ perr = ErrRead)

\* sum(stripByteCounts) == width*height*samplesPerPixel and the rest of the
\* layer invariant
wellFormedLayer(L) ==
    /\ L.width > 0
    /\ L.height > 0
    /\ L.stripOffsets # <<>>
    /\ L.stripByteCounts # <<>>
    /\ Len(L.stripOffsets) = Len(L.stripByteCounts)
    /\ SumSeq(L.stripByteCounts) = SatMul(SatMul(L.width, L.height), L.samplesPerPixel)

\* the directory at offset off cannot be read, or what it holds breaks the
\* layer invariant
brokenDirectory(f, le, off) ==
    \/ ~canRead(f, off, 2)
    \/ ~canRead(f, off + 2, EntrySize * decode16(bytesAt(f, off, 2), le) + 4)
    \/ LET E == entryMap(f, le, off, decode16(bytesAt(f, off, 2), le))
           w == getUInt(E, 256, f, le)
           h == getUInt(E, 257, f, le)
           s == getUInt(E, 277, f, le)
           so == readUInts(E, 273, f, le)
           sc == readUInts(E, 279, f, le)
       IN  \/ ~w.ok \/ ~h.ok \/ ~s.ok \/ ~so.ok \/ ~sc.ok
           \/ w.val = 0 \/ h.val = 0
           \/ so.vals = <<>> \/ sc.vals = <<>>
           \/ Len(so.vals) # Len(sc.vals)
           \/ totalOf(sc.vals, Len(sc.vals)) #
                 SatMul(SatMul(w.val, h.val), IF s.val = 0 THEN 1 ELSE s.val)

\* every layer read so far keeps the layer invariant
C10_LayersWellFormed == \A i \in 1..Len(prc.layers) : wellFormedLayer(prc.layers[i])

\* a step of the walk at a broken directory ends the parse with an error
C10_BrokenDirectoryFails ==
    (stage = "walk" /\ nextIFD # 0 /\ brokenDirectory(file, little, nextIFD)) =>
        (stage' = "error" /\ perr' # ErrNone)

\* C10: layer well-formedness on read: every layer of the collection parse
\* builds has width > 0, height > 0, non-empty strip arrays of equal length
\* and sum(stripByteCounts) = width*height*samplesPerPixel, and a directory
\* that breaks one of these makes the parse fail.
C10_LayerWellFormedness == [](C10_LayersWellFormed) /\ [][C10_BrokenDirectoryFails]_vars

\* a damaged file was rejected for its strip byte counts
C10_Witness == stage = "error" /\ perr = ErrStripCount /\ pokes = 1

\* the entry table of the first directory of a file whose header names it
firstDirectory(f, le) ==
    LET off == decode32(bytesAt(f, 4, 4), le)
    IN  entriesUpTo(f, le, off, decode16(bytesAt(f, off, 2), le))

\* a token DATUM starts at position i and three numbers follow it
datumAt(str, i) ==
    LET t == readToken(str, i)
        a == readDouble(str, t.next)
        b == readDouble(str, a.next)
        c == readDouble(str, b.next)
    IN  t.ok /\ t.tok = TokDATUM /\ a.ok /\ b.ok /\ c.ok

\* the text holds a DATUM token followed by three numbers
hasDatumText(str) ==
    \E i \in 1..Len(str) :
        /\ i = 1 \/ isSpace(str[i - 1])
        /\ ~isSpace(str[i])
        /\ datumAt(str, i)

\* the first directory has an ASCII ImageDescription with a DATUM in it
describesDatum(f, le) ==
    LET E == firstDirectory(f, le)
    IN  /\ 270 \in DOMAIN E
        /\ E[270].type = 2
        /\ hasDatumText(readString(f, E[270].valueOffset, E[270].count).str)

C12_ParseFinishes == <>Finished

\* the orders in which the entries of the map m can have been inserted
insertionOrders(m) ==
    LET ks == SortedKeys(DOMAIN m)
    IN  {[k \in 1..Len(ks) |-> <<ks[f[k]], m[ks[f[k]]]>>] : f \in Permutations(1..Len(ks))}

C14_PropertyRoundTrip ==
    \A signedChar \in BOOLEAN :
        /\ \A key \in PropKeys, value \in PropValues :
              LET props == getGlobalProperties(setGlobalProperty(rc[1], key, value, signedChar))
              IN  key \in DOMAIN props /\ props[key] = value
        /\ \A str \in PropKeys \cup PropValues :
              asciiTagToString(stringToAsciiTag(str, signedChar)) = str

\* C15: a collection whose layers have a set datum and a user-supplied
\* imageDescription is written and then parsed without error, and parse
\* returns as many layers as were written.
C15_CustomDescriptionParses ==
    (/\ Finished
     /\ admissible(rc)
     /\ \A i \in 1..Len(rc) : rc[i].imageDescription # <<>>) =>
        /\ stage = "done"
        /\ Len(prc.layers) = Len(rc)

\* once the file was written it holds toTiffBytes(rc), byte for byte
C16_FileIsBuffer ==
    (stage \in {"file", "walk", "done", "error"}) => (file = buf /\ file = toTiffBytes(rc))

\* the step that builds the buffer, or fails to, leaves the file as it was
C16_BuildLeavesFile ==
    (stage = "init" /\ stage' \in {"built", "buildError"}) => file' = file

directoryAt(f, le, off) == entriesUpTo(f, le, off, decode16(bytesAt(f, off, 2), le))

\* the directory has a BitsPerSample tag and it decodes to 8
eightBits(f, le, off) ==
    LET E == directoryAt(f, le, off)
    IN  258 \in DOMAIN E /\ getUInt(E, 258, f, le).val = 8

\* C17: BitsPerSample validation: every layer parse accepted was read from a
\* directory whose BitsPerSample tag decodes to 8, with samplesPerPixel and
\* planarConfig 1 where their tags are absent; the bit-depth error is raised
\* at a directory without such a tag.
C17_BitsPerSample ==
    /\ \A i \in 1..Len(prc.layers) :
          LET L == prc.layers[i]
              E == directoryAt(file, little, L.ifdOffset)
          IN  /\ eightBits(file, little, L.ifdOffset)
              /\ 277 \notin DOMAIN E => L.samplesPerPixel = 1
              /\ 284 \notin DOMAIN E => L.planarConfig = 1
    /\ (perr = ErrBits) => (stage = "error" /\ ~eightBits(file, little, nextIFD))

\* a directory whose bit depth was changed was rejected
C17_Witness ==
    /\ stage = "error"
    /\ perr = ErrBits
    /\ pokes = 1
    /\ ~eightBits(file, little, nextIFD)

\* the first directory has a ModelPixelScale tag of type DOUBLE
hasPixelScale(f, le) ==
    LET E == firstDirectory(f, le)
    IN  33550 \in DOMAIN E /\ E[33550].type = 12

\* how many values that tag has
pixelScaleCount(f, le) == firstDirectory(f, le)[33550].count

\* its first value, the X scale, as the 8-byte image of a double
pixelScaleX(f, le) == decode64(bytesAt(f, firstDirectory(f, le)[33550].valueOffset, 8), le)

placesOf(f, le, tag) ==
    LET off == decode32(bytesAt(f, 4, 4), le)
    IN  {k \in 0..(decode16(bytesAt(f, off, 2), le) - 1) : entryAt(f, le, off, k).tag = tag}

\* the entry at the last (last = TRUE) or first of these places
placedEntry(f, le, tag, last) ==
    LET off == decode32(bytesAt(f, 4, 4), le)
        S == placesOf(f, le, tag)
    IN  entryAt(f, le, off, CHOOSE k \in S : \A j \in S : IF last THEN j <= k ELSE k <= j)

\* the tag occurs in the first directory and its last entry is one inline SHORT
inlineShort(f, le, tag) ==
    /\ placesOf(f, le, tag) # {}
    /\ placedEntry(f, le, tag, TRUE).type = 3
    /\ placedEntry(f, le, tag, TRUE).count = 1

\* the tags whose value ends up in a field of the layer
LayerTags == {256, 257, 277, 284}

\* the field of the layer that the tag fills
layerField(l, tag) ==
    IF tag = 256 THEN l.width
    ELSE IF tag = 257 THEN l.height
    ELSE IF tag = 277 THEN l.samplesPerPixel
    ELSE l.planarConfig

\* C19: duplicate tags: after a successful parse each field of the first
\* layer that comes from a tag holds the value of the entry that occurs last
\* in the entry table of the first directory for that tag (0 read for
\* SamplesPerPixel or PlanarConfiguration becomes 1); entries of the same tag
\* before it have no effect.
C19_LastDuplicateWins ==
    (stage = "done") =>
        \A tag \in LayerTags :
            inlineShort(file, little, tag) =>
                LET v == firstShort(placedEntry(file, little, tag, TRUE), little)
                IN  layerField(prc.layers[1], tag) = IF v = 0 THEN 1 ELSE v

\* a successful parse of a directory in which a tag occurs twice with
\* different values
C19_Witness ==
    /\ stage = "done"
    /\ \E tag \in LayerTags :
          /\ Cardinality(placesOf(file, little, tag)) >= 2
          /\ inlineShort(file, little, tag)
          /\ placedEntry(file, little, tag, FALSE).type = 3
          /\ placedEntry(file, little, tag, FALSE).count = 1
          /\ firstShort(placedEntry(file, little, tag, FALSE), little)
                # firstShort(placedEntry(file, little, tag, TRUE), little)

\* the file has a whole header with a byte-order marker, the constant 42
\* and a first-directory offset of 0
headerWithoutDirectory(f) ==
    /\ Len(f) >= HeaderSize
    /\ SubSeq(f, 1, 2) \in {<<73, 73>>, <<77, 77>>}
    /\ decode16(bytesAt(f, 2, 2), f[1] = 73) = 42
    /\ decode32(bytesAt(f, 4, 4), f[1] = 73) = 0

\* C20: no-valid-directories: a parse that has succeeded has at least one
\* layer and stopped at a next-directory offset of 0; the no-valid-directories
\* error is raised with no layer parsed, for a header whose first-directory
\* offset is 0, and a parse of such a file ends with that error.
C20_NoValidDirectories ==
    /\ (stage = "done") => (prc.layers # <<>> /\ nextIFD = 0)
    /\ (perr = ErrNoIFD) =>
          /\ stage = "error"
          /\ prc.layers = <<>>
          /\ headerWithoutDirectory(file)
    /\ (stage \in {"done", "error"} /\ headerWithoutDirectory(file)) => perr = ErrNoIFD

\* the parse of a written file whose first-directory offset was overwritten
\* with 0 has failed with the no-valid-directories error
C20_Witness ==
    /\ perr = ErrNoIFD
    /\ pokes = 1
    /\ little

\* W*H*samplesPerPixel of a layer
pixelBytes(layer) == layer.grid.cols * layer.grid.rows * layer.samplesPerPixel

\* the pixel bytes of the first n layers together
RECURSIVE pixelBytesUpTo(_, _)
pixelBytesUpTo(c, n) == IF n = 0 THEN 0 ELSE pixelBytesUpTo(c, n - 1) + pixelBytes(c[n])

\* the entry of the directory at offset off under tag is one LONG with value v
longEntry(f, off, tag, v) ==
    LET E == directoryAt(f, TRUE, off)
    IN  /\ tag \in DOMAIN E
        /\ E[tag].type = 4
        /\ E[tag].count = 1
        /\ E[tag].valueOffset = v

\* C21: strip layout: in build's output the strip of layer i starts at 8 plus
\* the strip lengths of the layers before it, has W*H*samplesPerPixel bytes
\* and holds the grid row-major, each sample repeated samplesPerPixel times;
\* the first directory starts at 8 plus all strip lengths; StripOffsets and
\* StripByteCounts of directory i hold that offset and that length.
C21_StripLayout ==
    (stage = "built") =>
        /\ headerIFD(buf) = HeaderSize + pixelBytesUpTo(rc, Len(rc))
        /\ Len(chainOf(buf)) = Len(rc)
        /\ \A i \in 1..Len(rc) :
              LET start == HeaderSize + pixelBytesUpTo(rc, i - 1)
                  W == rc[i].grid.cols
                  S == rc[i].samplesPerPixel
              IN  /\ start + pixelBytes(rc[i]) <= headerIFD(buf)
                  /\ \A r \in 0..(rc[i].grid.rows - 1), c \in 0..(W - 1), k \in 0..(S - 1) :
                        buf[start + (r * W + c) * S + k + 1] = GridAt(rc[i].grid, r, c)
                  /\ longEntry(buf, chainOf(buf)[i], 273, start)
                  /\ longEntry(buf, chainOf(buf)[i], 279, pixelBytes(rc[i]))

\* a buffer of two layers with pixel data, the second with two samples a pixel
C21_Witness ==
    /\ stage = "built"
    /\ Len(rc) = 2
    /\ rc[1].grid.cols = 2
    /\ rc[1].samplesPerPixel = 1
    /\ rc[2].samplesPerPixel = 2

\* the number of entries the directory at offset off declares
entriesAt(f, off) == decode16(bytesAt(f, off, 2), TRUE)

\* the first byte after the directory at offset off
directoryEnd(f, off) == off + 2 + entriesAt(f, off) * EntrySize + 4

\* the chain as the built bytes show it: directory i has 14 plus the number
\* of custom tags of layer i entries and takes 2 + entries*12 + 4 bytes; the
\* first directory starts at the header's offset, directory i+1 starts where
\* directory i ends, the next-directory field of directory i is the start of
\* directory i+1, that of the last directory is 0, and the variable-length
\* data starts where the last directory ends
builtDirectoryChain ==
    (stage = "built") =>
        LET chain == chainOf(buf)
            N == Len(rc)
        IN  /\ Len(chain) = N
            /\ chain[1] = headerIFD(buf)
            /\ \A i \in 1..N :
                  /\ entriesAt(buf, chain[i]) = 14 + Cardinality(DOMAIN rc[i].customTags)
                  /\ directoryEnd(buf, chain[i]) <= Len(buf)
                  /\ decode32(bytesAt(buf, directoryEnd(buf, chain[i]) - 4, 4), TRUE)
                        = IF i < N THEN chain[i + 1] ELSE 0
                  /\ i < N => chain[i + 1] = directoryEnd(buf, chain[i])
            /\ directoryAt(buf, TRUE, chain[1])[270].valueOffset = directoryEnd(buf, chain[N])

\* where the custom overflow region of layer i starts in a built buffer:
\* behind the 48 bytes of the tiepoint block
overflowStart(f, i) == directoryAt(f, TRUE, chainOf(f)[i])[33922].valueOffset + TiepointBytes

\* where it ends: at the description of the next layer, or with the buffer
overflowEnd(f, i) ==
    IF i < Len(chainOf(f)) THEN directoryAt(f, TRUE, chainOf(f)[i + 1])[270].valueOffset
    ELSE Len(f)

\* the n LONGs at offset o of the buffer are the values, in order
longsAt(f, o, values) ==
    /\ o + 4 * Len(values) <= Len(f)
    /\ \A j \in 1..Len(values) : decode32(bytesAt(f, o + 4 * (j - 1), 4), TRUE) = values[j]

\* the entry of tag in directory i of a built buffer points at the values,
\* inside the overflow region of the layer
storedAtOffset(f, i, tag, values) ==
    LET o == directoryAt(f, TRUE, chainOf(f)[i])[tag].valueOffset
    IN  /\ overflowStart(f, i) <= o
        /\ o + 4 * Len(values) <= overflowEnd(f, i)
        /\ longsAt(f, o, values)

\* the entries of the custom tags of layer i are LONGs with the tag's count
customEntriesTyped(f, c, i) ==
    \A tag \in DOMAIN c[i].customTags :
        LET E == directoryAt(f, TRUE, chainOf(f)[i])
        IN  /\ tag \in DOMAIN E
            /\ E[tag].type = 4
            /\ E[tag].count = Len(c[i].customTags[tag])

\* two different tags of layer i that are stored at an offset do not overlap
overflowDisjoint(f, c, i) ==
    \A t1, t2 \in DOMAIN c[i].customTags :
        (t1 < t2 /\ Len(c[i].customTags[t1]) > 1 /\ Len(c[i].customTags[t2]) > 1) =>
            LET E == directoryAt(f, TRUE, chainOf(f)[i])
            IN  \/ E[t1].valueOffset + 4 * Len(c[i].customTags[t1]) <= E[t2].valueOffset
                \/ E[t2].valueOffset + 4 * Len(c[i].customTags[t2]) <= E[t1].valueOffset

\* C23 as the claim states it: a custom tag whose 4n bytes fit the four
\* bytes of the value field (n <= 1) has its values in the field itself, the
\* unused bytes zero; a longer one is stored at an offset inside the layer's
\* overflow region.
C23_InlineWhenFits ==
    (stage = "built") =>
        \A i \in 1..Len(rc) :
            /\ customEntriesTyped(buf, rc, i)
            /\ overflowDisjoint(buf, rc, i)
            /\ \A tag \in DOMAIN rc[i].customTags :
                  LET values == rc[i].customTags[tag]
                      field == directoryAt(buf, TRUE, chainOf(buf)[i])[tag].valueOffset
                  IN  IF 4 * Len(values) <= 4
                      THEN field = IF values = <<>> THEN 0 ELSE values[1]
                      ELSE storedAtOffset(buf, i, tag, values)

\* C23: inline-or-offset rule for custom tags: the entry of a custom tag with
\* n values has type LONG and count n; with exactly one value the value field
\* holds that value; with none or several it holds an offset inside the
\* layer's custom overflow region at which the n LONGs of the tag follow in
\* order, and different tags get disjoint ranges.
C23_InlineOrOffset ==
    (stage = "built") =>
        \A i \in 1..Len(rc) :
            /\ customEntriesTyped(buf, rc, i)
            /\ overflowDisjoint(buf, rc, i)
            /\ \A tag \in DOMAIN rc[i].customTags :
                  LET values == rc[i].customTags[tag]
                      field == directoryAt(buf, TRUE, chainOf(buf)[i])[tag].valueOffset
                  IN  IF Len(values) = 1
                      THEN field = values[1]
                      ELSE storedAtOffset(buf, i, tag, values)

\* a buffer was built for a layer with a tag without values and a tag of two
C23_Witness ==
    /\ stage = "built"
    /\ Len(rc) = 2
    /\ rc[1].customTags = TagsEmpty
    /\ rc[2].customTags = TagsArrays
    /\ directoryAt(buf, TRUE, chainOf(buf)[1])[50030].valueOffset = overflowStart(buf, 1)

\* the 32-bit word with c1 in its most significant byte and c4 in its least
bigEndianWord(c1, c2, c3, c4) ==
    16777216 * (IF c1 >= 128 THEN c1 - 256 ELSE c1) + 65536 * c2 + 256 * c3 + c4

\* the tag under which setGlobalProperty stores key
propertyTag(key) == GLOBAL_PROPERTIES_BASE_TAG + (hasher(key) % PropertySlots)

\* C24: ASCII packing layout: the words stored for key=value by
\* stringToAsciiTag are floor(len/4)+1 in number; word w holds characters
\* 4w-3..4w of the string followed by NULs, the first of the four in the most
\* significant byte and the fourth in the least significant byte, each byte
\* with its own 8 bits and nothing else.
C24_AsciiPackingLayout ==
    \A signedChar \in BOOLEAN, key \in PropKeys, value \in PropValues :
        LET str == key \o <<61>> \o value
            words == setGlobalProperty(rc[1], key, value, signedChar).customTags[propertyTag(key)]
            ch(k) == IF k <= Len(str) THEN str[k] ELSE 0
        IN  /\ Len(words) = (Len(str) \div 4) + 1
            /\ \A w \in 1..Len(words) :
                  words[w] = bigEndianWord(ch(4 * w - 3), ch(4 * w - 2), ch(4 * w - 1), ch(4 * w))

\* C25: hash-slot collisions are unresolved: setGlobalProperty(key, value)
\* writes the custom tag 50100 + (hash(key) mod 1000) and no other, a tag in
\* [50100, 51100); when two distinct keys have the same tag, after setting
\* the first and then the second getGlobalProperties() contains the second
\* key and not the first.
C25_CollisionReplaces ==
    \A signedChar \in BOOLEAN, k1 \in PropKeys, k2 \in PropKeys,
       v1 \in PropValues, v2 \in PropValues :
        LET one == setGlobalProperty(rc[1], k1, v1, signedChar)
            two == setGlobalProperty(one, k2, v2, signedChar)
            tag == propertyTag(k2)
        IN  /\ tag >= 50100 /\ tag < 51100
            /\ DOMAIN two.customTags = DOMAIN one.customTags \cup {tag}
            /\ \A t \in DOMAIN one.customTags \ {tag} : two.customTags[t] = one.customTags[t]
            /\ (k1 # k2 /\ propertyTag(k1) = tag) =>
                  /\ k2 \in DOMAIN getGlobalProperties(two)
                  /\ k1 \notin DOMAIN getGlobalProperties(two)

\* the byte run pix of a parsed layer: its strips as they lie in the file,
\* one after the other in stripOffsets order
pixOf(f, l) ==
    Flatten([i \in 1..Len(l.stripOffsets) |-> bytesAt(f, l.stripOffsets[i], l.stripByteCounts[i])])

\* C26: sample reassembly on read: for every layer parse returns, with width
\* W, height H, samplesPerPixel S and pix the strips of the directory joined
\* in stripOffsets order, pix has W*H*S bytes, grid(r,c) = pix[(r*W + c)*S]
\* when planarConfig is 1 and grid(r,c) = pix[r*W + c] otherwise, and the
\* index lies inside pix.
C26_SampleReassembly ==
    (stage = "done") =>
        \A i \in 1..Len(prc.layers) :
            LET l == prc.layers[i]
                pix == pixOf(file, l)
                W == l.width
                S == l.samplesPerPixel
                at(r, c) == IF l.planarConfig = 1 THEN (r * W + c) * S ELSE r * W + c
            IN  /\ Len(pix) = W * l.height * S
                /\ l.grid.rows = l.height
                /\ l.grid.cols = W
                /\ \A r \in 0..(l.height - 1), c \in 0..(W - 1) :
                      /\ at(r, c) < Len(pix)
                      /\ GridAt(l.grid, r, c) = pix[at(r, c) + 1]

\* a layer of two pixels with two samples each was read from two strips, the
\* second half of the pixel bytes first
C26_Witness ==
    /\ stage = "done"
    /\ Len(prc.layers[1].stripOffsets) = 2
    /\ prc.layers[1].stripOffsets[2] < prc.layers[1].stripOffsets[1]
    /\ prc.layers[1].samplesPerPixel = 2
    /\ prc.layers[1].planarConfig = 1
    /\ GridAt(prc.layers[1].grid, 0, 0) = file[HeaderSize + 3]
    /\ GridAt(prc.layers[1].grid, 0, 1) = file[HeaderSize + 1]
    /\ file[HeaderSize + 3] # file[HeaderSize + 1]

\* C28: in every directory build emits the 12-byte entries appear in strictly
\* ascending order of their tag numbers, no tag number twice.
C28_EntriesAscending ==
    (stage = "built") =>
        \A i \in 1..Len(chainOf(buf)) :
            \A k \in 0..(entriesAt(buf, chainOf(buf)[i]) - 2) :
                entryAt(buf, TRUE, chainOf(buf)[i], k).tag
                    < entryAt(buf, TRUE, chainOf(buf)[i], k + 1).tag

\* the bytes of one value of a TIFF type: ASCII 1, SHORT 2, LONG 4, DOUBLE 8
typeSize(type) == IF type = 2 THEN 1 ELSE IF type = 3 THEN 2 ELSE IF type = 4 THEN 4 ELSE 8

\* the bytes an entry declares: the size of its type times its count
declaredBytes(e) == typeSize(e.type) * e.count

\* NumberOfKeys, the fourth 16-bit value of the GeoKey block at offset off
numKeysAt(f, off) == decode16(bytesAt(f, off + 6, 2), TRUE)

\* C29: for every directory build emits, the bytes declared by the entry of
\* each fixed block stored at an offset (description, pixel scale, GeoKey
\* directory, tiepoint) are the bytes the planner reserved for the block and
\* the bytes written into it, and the SHORT count of the GeoKeyDirectoryTag
\* entry is 4 + 4*NumberOfKeys, the number of 16-bit values written.
C29_FixedBlocksConsistent ==
    (stage = "built") =>
        \A i \in 1..Len(rc) :
            LET E == directoryAt(buf, TRUE, chainOf(buf)[i])
            IN  /\ declaredBytes(E[270]) = scaleOffsets(rc)[i] - descOffsets(rc)[i]
                /\ declaredBytes(E[270]) = Len(descriptions(rc)[i]) + 1
                /\ declaredBytes(E[33550]) = geoKeyOffsets(rc)[i] - scaleOffsets(rc)[i]
                /\ declaredBytes(E[33550]) = Len(scaleBlock(rc[i]))
                /\ declaredBytes(E[34735]) = tiepointOffsets(rc)[i] - geoKeyOffsets(rc)[i]
                /\ declaredBytes(E[34735]) = Len(geoKeyBlock)
                /\ declaredBytes(E[33922]) = customDataOffsets(rc)[i] - tiepointOffsets(rc)[i]
                /\ declaredBytes(E[33922]) = Len(tiepointBlock(rc[i]))
                /\ E[34735].count = 4 + 4 * numKeysAt(buf, E[34735].valueOffset)
                /\ 2 * E[34735].count = Len(geoKeyBlock)

\* the layers of the Raster report the same properties as layer 0
propertiesUniform(layers) ==
    \A i \in 1..Len(layers) :
        getGlobalProperties(layers[i]) = getGlobalProperties(layers[1])

\* C30: after any sequence of addGrid, removeGrid, clearGrids,
\* setGlobalProperty and removeGlobalProperty, with keys that may contain
\* '=', every layer's getGlobalProperties() equals that of layer 0, and
\* removeGrid with an index >= gridCount() leaves the Raster unchanged.
C30_PropertiesUniform ==
    /\ propertiesUniform(grid_layers_)
    /\ \A index \in Len(grid_layers_)..MaxGrids :
          removeGrid(grid_layers_, index) = grid_layers_

\* the regions follow one another from 0 to the size of the buffer and no two
\* of them share a byte
regionsTile(rs) ==
    /\ rs[1].start = 0
    /\ \A k \in 1..(Len(rs) - 1) : rs[k + 1].start = rs[k].start + rs[k].size
    /\ \A k \in 1..Len(rs) : rs[k].size >= 0
    /\ \A j, k \in 1..Len(rs) :
          j < k => rs[j].start + rs[j].size <= rs[k].start

\* every write lies in the buffer and in the region of its kind and layer,
\* and a directory holds as many entries as its header says
writesInRegions(rs, ws) ==
    \A j \in 1..Len(ws) :
        LET r == regionOf(rs, ws[j].kind, ws[j].layer)
        IN  /\ 0 <= ws[j].from /\ ws[j].to <= planTotalSize(rs)
            /\ r.start <= ws[j].from /\ ws[j].to <= r.start + r.size
            /\ ws[j].entries = ws[j].count

\* C27: the regions the planner assigns (header, strips, directories, then
\* per layer description, pixel scale, GeoKey, tiepoint, custom overflow)
\* are pairwise disjoint, each starts where the previous one ends, together
\* they cover [0, totalSize), every write of the emission lands inside the
\* buffer and inside its region, and the entries written for a directory
\* are as many as the entry count of its header.
C27_RegionsTile ==
    /\ regions # <<>> => regionsTile(regions)
    /\ writes # <<>> => writesInRegions(regions, writes)

\* directory i as the sizes give it: its region and its write are
\* 2 + entries*12 + 4 bytes long with entries = 14 + custom tags, the header
\* carries that count, directory i+1 starts where directory i ends, and the
\* next-directory field names it, or is 0 in the last directory
directoryChain(sh, rs, ws) ==
    \A j \in 1..Len(ws) :
        ws[j].kind = "directory" =>
            LET i == ws[j].layer
                r == regionOf(rs, "directory", i)
                entries == BaseEntries + sh[i].tags
            IN  /\ r.size = 2 + entries * EntrySize + 4
                /\ ws[j].from = r.start /\ ws[j].to = r.start + r.size
                /\ ws[j].count = entries
                /\ ws[j].next = (IF i < Len(sh) THEN r.start + r.size ELSE 0)
                /\ i < Len(sh) => regionOf(rs, "directory", i + 1).start = r.start + r.size

\* C22: in build's output directory i occupies exactly 2 + entries_i*12 + 4
\* bytes where entries_i = 14 + number of custom tags of layer i, directory
\* i+1 starts exactly where directory i ends, the next-directory field of
\* directory i equals the start of directory i+1 for i < N-1 and 0 for the
\* last directory.  Stated on the built bytes and on the sizes.
C22_DirectoryAddresses ==
    /\ builtDirectoryChain
    /\ writes # <<>> => directoryChain(shapes, regions, writes)

====
